---------------------------- MODULE Spec2Model ----------------------------
(***************************************************************************)
(* A model of the Figma -> e-mail HTML plugin (src/code.ts).               *)
(*                                                                         *)
(* Strings that the code inspects (style strings, text content, font       *)
(* names) are sequences of one-character strings, so that split, trim,     *)
(* startsWith, includes and the regular expressions of the code are        *)
(* computed and not assumed.  The HTML the code composes is a sequence of  *)
(* tokens (one per opening tag, closing tag or piece of content); string   *)
(* concatenation is \o, the empty string is << >>.  Every token carries    *)
(* the id of the design node whose render call wrote it.                   *)
(*                                                                         *)
(* Geometry (y, height, padding, width) is in quarter units, so that       *)
(* Math.round is a real rounding: Unit == 4 is one Figma unit.             *)
(***************************************************************************)
EXTENDS Integers, Sequences, FiniteSets, TLC

VARIABLES
    pc,         \* "ui" in the plugin; in a unit run "call", then the helper called
    selection,  \* figma.currentPage.selection: the sequence of selected nodes
    request,    \* the last message from the UI: type, imageExportMode, useLiteralWidth
    posted,     \* the html of the last 'generated-html' message
    fnArg,      \* unit harness: the argument a helper is applied to
    fnRet,      \* unit harness: what the helper returned
    inFlight,   \* the awaited host operations started and not yet settled
    log,        \* the host operations and styling calls of the conversion, in order
    pending     \* stepwise conversion: the calls of the traversal still to come

vars == <<pc, selection, request, posted, fnArg, fnRet, inFlight, log, pending>>

(***************************************************************************)
(* JavaScript string primitives on sequences of characters.                *)
(***************************************************************************)
WhiteSpace == {" ", "\n", "\t"}

\* String.prototype.trim
Trim(s) ==
    LET inked == {i \in 1..Len(s) : s[i] \notin WhiteSpace}
    IN  IF inked = {} THEN << >>
        ELSE SubSeq(s, CHOOSE i \in inked : \A j \in inked : i <= j,
                       CHOOSE i \in inked : \A j \in inked : i >= j)

\* String.prototype.startsWith
StartsWith(s, p) == Len(s) >= Len(p) /\ SubSeq(s, 1, Len(p)) = p

\* String.prototype.endsWith
EndsWith(s, p) == Len(s) >= Len(p) /\ SubSeq(s, Len(s) - Len(p) + 1, Len(s)) = p

\* String.prototype.includes
Includes(s, p) ==
    \E i \in 1..(Len(s) - Len(p) + 1) : SubSeq(s, i, i + Len(p) - 1) = p

\* String.prototype.split for a one-character separator: "".split(c) is [""]
Split(s, c) ==
    LET seps == {i \in 1..Len(s) : s[i] = c}
        n == Cardinality(seps)
        SepAt(k) == IF k = 0 THEN 0
                    ELSE IF k > n THEN Len(s) + 1
                    ELSE CHOOSE p \in seps : Cardinality({q \in seps : q <= p}) = k
    IN  [k \in 1..(n + 1) |-> SubSeq(s, SepAt(k - 1) + 1, SepAt(k) - 1)]

\* the concatenation of parts[lo..hi]
RECURSIVE FlattenRange(_, _, _)
FlattenRange(parts, lo, hi) ==
    IF lo > hi THEN << >>
    ELSE IF lo = hi THEN parts[lo]
    ELSE LET mid == (lo + hi) \div 2
         IN  FlattenRange(parts, lo, mid) \o FlattenRange(parts, mid + 1, hi)

\* the concatenation of a sequence of sequences: parts.join('')
Flatten(parts) == FlattenRange(parts, 1, Len(parts))

\* Array.prototype.join
Join(parts, sep) ==
    Flatten([i \in 1..(2 * Len(parts) - 1) |->
                IF i % 2 = 1 THEN parts[(i + 1) \div 2] ELSE sep])

\* Number.prototype.toString(10) of an integer, as characters
Digit(d) == CASE d = 0 -> "0" [] d = 1 -> "1" [] d = 2 -> "2" [] d = 3 -> "3"
              [] d = 4 -> "4" [] d = 5 -> "5" [] d = 6 -> "6" [] d = 7 -> "7"
              [] d = 8 -> "8" [] d = 9 -> "9" [] d = 10 -> "a" [] d = 11 -> "b"
              [] d = 12 -> "c" [] d = 13 -> "d" [] d = 14 -> "e" [] d = 15 -> "f"

RECURSIVE NatToString(_, _)
NatToString(n, radix) ==
    IF n < radix THEN <<Digit(n)>>
    ELSE Append(NatToString(n \div radix, radix), Digit(n % radix))

NumToString(n) == IF n < 0 THEN <<"-">> \o NatToString(0 - n, 10) ELSE NatToString(n, 10)

(***************************************************************************)
(* String constants of the code.                                           *)
(***************************************************************************)
S_padding == <<"p", "a", "d", "d", "i", "n", "g">>
S_margin == <<"m", "a", "r", "g", "i", "n">>
S_border == <<"b", "o", "r", "d", "e", "r">>
S_border_radius == S_border \o <<"-", "r", "a", "d", "i", "u", "s">>
S_px == <<"p", "x">>
S_pt == <<"p", "t">>
S_em == <<"e", "m">>
S_vw == <<"v", "w">>
S_vh == <<"v", "h">>
S_pct == <<"%">>

(***************************************************************************)
(* Style strings: sanitizeStyles and cleanZeroValueStyles.                 *)
(***************************************************************************)
\* Map.prototype.set on an insertion-ordered map kept as a sequence of
\* <<key, value>> pairs: an existing key keeps its place and gets the value
MapSet(m, k, v) ==
    IF \E i \in 1..Len(m) : m[i][1] = k
    THEN [i \in 1..Len(m) |-> IF m[i][1] = k THEN <<k, v>> ELSE m[i]]
    ELSE Append(m, <<k, v>>)

\* the body of the forEach callback of sanitizeStyles
SanitizeRule(styleMap, rule) ==
    LET Set(key, value) ==
            IF key = << >> \/ value = << >> THEN styleMap
            ELSE MapSet(styleMap, Trim(key), value)
        Parts(parts) == Set(parts[1], Trim(Join(Tail(parts), <<":">>)))
    IN  Parts(Split(rule, ":"))

RECURSIVE SanitizeFold(_, _)
SanitizeFold(styleMap, rules) ==
    IF rules = << >> THEN styleMap
    ELSE SanitizeFold(SanitizeRule(styleMap, Head(rules)), Tail(rules))

NonBlank(rule) == Trim(rule) # << >>

sanitizeStyles(styleStr) ==
    IF styleStr = << >> THEN << >>
    ELSE LET rules == SelectSeq(Split(styleStr, ";"), NonBlank)
             Entries(styleMap) ==
                 Join([i \in 1..Len(styleMap) |->
                          styleMap[i][1] \o <<":">> \o styleMap[i][2]], <<";">>)
         IN  Entries(SanitizeFold(<< >>, rules))

\* /^0(px|pt|em|%|vw|vh)?$/.test(value)
IsZeroValue(value) ==
    value \in {<<"0">> \o u : u \in {<< >>, S_px, S_pt, S_em, S_pct, S_vw, S_vh}}

\* the filter callback of cleanZeroValueStyles: TRUE when the rule is kept.
\* In the code's condition && binds tighter than ||.
KeepRule(rule) ==
    IF Trim(rule) = << >> THEN FALSE
    ELSE LET Keep(key, value) ==
                 IF value = << >> THEN TRUE
                 ELSE IF Includes(key, S_border_radius)
                         \/ ((StartsWith(key, S_padding) \/ StartsWith(key, S_margin)
                              \/ StartsWith(key, S_border)) /\ IsZeroValue(value))
                      THEN FALSE
                      ELSE TRUE
             \* const [key, value] = rule.split(':').map(s => s.trim())
             Parts(parts) == Keep(Trim(parts[1]),
                                  IF Len(parts) >= 2 THEN Trim(parts[2]) ELSE << >>)
         IN  Parts(Split(rule, ":"))

cleanZeroValueStyles(styleStr) ==
    IF styleStr = << >> THEN << >>
    ELSE Join(SelectSeq(Split(styleStr, ";"), KeepRule), <<";">>)

(***************************************************************************)
(* Numbers.  Colour channels and opacities are exact rationals [n, d]: on  *)
(* the values used here (halves, quarters, hundredths) the products and    *)
(* sums of the code are far from a rounding boundary or exactly            *)
(* representable, so the exact value rounds as the double does.            *)
(***************************************************************************)
RECURSIVE GCD(_, _)
GCD(a, b) == IF b = 0 THEN a ELSE GCD(b, a % b)

Abs(n) == IF n < 0 THEN 0 - n ELSE n

Q(n, d) == LET g == GCD(Abs(n), d) IN [n |-> n \div g, d |-> d \div g]

QAdd(a, b) == Q(a.n * b.d + b.n * a.d, a.d * b.d)
QSub(a, b) == Q(a.n * b.d - b.n * a.d, a.d * b.d)
QMul(a, b) == Q(a.n * b.n, a.d * b.d)
QGe(a, b) == a.n * b.d >= b.n * a.d
QOne == Q(1, 1)
QZero == Q(0, 1)

\* Math.round of a rational: the integer nearest, halves towards +infinity
QRound(x) == (2 * x.n + x.d) \div (2 * x.d)

\* an optional value (undefined or v) is << >> or <<v>>; x ?? dflt
OrElse(opt, dflt) == IF opt = << >> THEN dflt ELSE opt[1]

Rgb(r, g, b) == [r |-> r, g |-> g, b |-> b]
White == Rgb(QOne, QOne, QOne)

\* the opacity threshold 0.99 of the colour resolver
OpaqueThreshold == Q(99, 100)

(***************************************************************************)
(* Colour resolver.                                                        *)
(***************************************************************************)
\* toHex of figmaColorToHex: ("0" + Math.round(c * 255).toString(16)).slice(-2)
toHex(c) ==
    LET s == <<"0">> \o NatToString(QRound(QMul(c, Q(255, 1))), 16)
    IN  SubSeq(s, Len(s) - 1, Len(s))

figmaColorToHex(color) == <<"#">> \o toHex(color.r) \o toHex(color.g) \o toHex(color.b)

\* the blend with the foreground and the background exchanged
blendColorsSwapped(fg, a, bg) ==
    LET mix(f, g) == QAdd(QMul(g, a), QMul(f, QSub(QOne, a)))
    IN  Rgb(mix(fg.r, bg.r), mix(fg.g, bg.g), mix(fg.b, bg.b))

blendColors(fg, a, bg) ==
    LET mix(f, g) == QAdd(QMul(f, a), QMul(g, QSub(QOne, a)))
    IN  Rgb(mix(fg.r, bg.r), mix(fg.g, bg.g), mix(fg.b, bg.b))

IsGradient(type) ==
    type \in {"GRADIENT_LINEAR", "GRADIENT_RADIAL", "GRADIENT_ANGULAR", "GRADIENT_DIAMOND"}

\* fills.find(f => f.visible !== false): the index of the first one, 0 if none
FirstVisible(fills) ==
    IF \E i \in 1..Len(fills) : fills[i].visible
    THEN CHOOSE i \in 1..Len(fills) :
            fills[i].visible /\ \A j \in 1..(i - 1) : ~fills[j].visible
    ELSE 0

\* hex is << >> for null; rgb is the colour handed on to the children
getEffectiveBackgroundColorForFills(fills, parentBgColor) ==
    LET none == [hex |-> << >>, rgb |-> parentBgColor]
        i == FirstVisible(fills)
    IN  IF fills = << >> \/ i = 0 THEN none
        ELSE LET f == fills[i]
                 solid == f.type = "SOLID"
                 stop == f.gradientStops[1].color
                 color == IF solid THEN f.color ELSE Rgb(stop.r, stop.g, stop.b)
                 opacity == IF solid THEN OrElse(f.opacity, QOne) ELSE OrElse(stop.a, QOne)
             IN  IF ~solid /\ ~IsGradient(f.type) THEN none
                 ELSE IF QGe(opacity, OpaqueThreshold)
                      THEN [hex |-> figmaColorToHex(color), rgb |-> color]
                      ELSE LET Blended(finalRgb) ==
                                   [hex |-> figmaColorToHex(finalRgb), rgb |-> finalRgb]
                           IN  Blended(blendColors(color, opacity, parentBgColor))

\* node.fills is never figma.mixed here: the nodes of the model have one paint list
getEffectiveBackgroundColor(node, parentBgColor) ==
    getEffectiveBackgroundColorForFills(node.fills, parentBgColor)

\* the walk up node.parent; anc is the chain of ancestors, the outermost first.
\* Ancestors above the selection carry no fill.
RECURSIVE findParentBackgroundColor(_)
findParentBackgroundColor(anc) ==
    IF anc = << >> THEN White
    ELSE LET parent == anc[Len(anc)]
             up == findParentBackgroundColor(SubSeq(anc, 1, Len(anc) - 1))
             cand == {i \in 1..Len(parent.fills) :
                        (parent.fills[i].type = "SOLID" \/ IsGradient(parent.fills[i].type))
                        /\ parent.fills[i].visible}
         IN  IF cand = {} THEN up
             ELSE LET f == parent.fills[CHOOSE i \in cand : \A j \in cand : i <= j]
                      stop == f.gradientStops[1].color
                  IN  IF f.type = "SOLID"
                      THEN IF QGe(OrElse(f.opacity, QOne), OpaqueThreshold) THEN f.color ELSE up
                      ELSE IF QGe(OrElse(stop.a, QOne), OpaqueThreshold)
                           THEN Rgb(stop.r, stop.g, stop.b) ELSE up

(***************************************************************************)
(* Geometry is in quarter units.                                           *)
(***************************************************************************)
Unit == 4

\* Math.round of a length given in quarter units, in whole units
Round(q) == (2 * q + Unit) \div (2 * Unit)

S_black == <<"#", "0", "0", "0", "0", "0", "0">>

\* null is << >>
getBorderStyles(node, anc) ==
    IF node.strokes = << >> \/ node.strokeWeight = 0 THEN << >>
    ELSE LET cand == {i \in 1..Len(node.strokes) :
                        node.strokes[i].visible /\ node.strokes[i].type = "SOLID"}
             weight == Round(node.strokeWeight)
         IN  IF cand = {} \/ weight = 0 THEN << >>
             ELSE LET stroke == node.strokes[CHOOSE i \in cand : \A j \in cand : i <= j]
                      Border(colorHex) ==
                          <<"b", "o", "r", "d", "e", "r", ":", " ">> \o NumToString(weight) \o <<"p", "x", " ", "s", "o", "l", "i", "d", " ">>
                            \o (IF colorHex # << >> THEN colorHex ELSE S_black) \o <<";">>
                  IN  Border(getEffectiveBackgroundColorForFills(
                                 <<stroke>>, findParentBackgroundColor(anc)).hex)

(***************************************************************************)
(* Style/Text engine.  A style object is an insertion-ordered sequence of  *)
(* <<key, value>> pairs, as the keys of a JavaScript object are.           *)
(***************************************************************************)
UpperCase == <<"A", "B", "C", "D", "E", "F", "G", "H", "I", "J", "K", "L", "M", "N", "O", "P", "Q", "R", "S", "T", "U", "V", "W", "X", "Y", "Z">>
LowerCase == <<"a", "b", "c", "d", "e", "f", "g", "h", "i", "j", "k", "l", "m", "n", "o", "p", "q", "r", "s", "t", "u", "v", "w", "x", "y", "z">>

ToLowerChar(c) ==
    IF \E i \in 1..Len(UpperCase) : UpperCase[i] = c
    THEN LowerCase[CHOOSE i \in 1..Len(UpperCase) : UpperCase[i] = c]
    ELSE c

\* String.prototype.toLowerCase
ToLowerCase(s) == [i \in 1..Len(s) |-> ToLowerChar(s[i])]

getFontStack(family) ==
    LET sansSerif == <<"A", "r", "i", "a", "l", ",", " ", "H", "e", "l", "v", "e", "t", "i", "c", "a", ",", " ", "s", "a", "n", "s", "-", "s", "e", "r", "i", "f">>
        serif == <<"G", "e", "o", "r", "g", "i", "a", ",", " ", "'", "T", "i", "m", "e", "s", " ", "N", "e", "w", " ", "R", "o", "m", "a", "n", "'", ",", " ", "s", "e", "r", "i", "f">>
        monospace == <<"'", "C", "o", "u", "r", "i", "e", "r", " ", "N", "e", "w", "'", ",", " ", "C", "o", "u", "r", "i", "e", "r", ",", " ", "m", "o", "n", "o", "s", "p", "a", "c", "e">>
        lower == ToLowerCase(family)
        quoted == <<"'">> \o family \o <<"'", ",", " ">>
    IN  IF Includes(lower, <<"i", "n", "t", "e", "r">>) \/ Includes(lower, <<"r", "o", "b", "o", "t", "o">>)
           \/ Includes(lower, <<"h", "e", "l", "v", "e", "t", "i", "c", "a">>) \/ Includes(lower, <<"a", "r", "i", "a", "l">>)
        THEN quoted \o sansSerif
        ELSE IF Includes(lower, <<"t", "i", "m", "e", "s">>) \/ Includes(lower, <<"g", "e", "o", "r", "g", "i", "a">>)
                \/ Includes(lower, <<"s", "e", "r", "i", "f">>)
        THEN quoted \o serif
        ELSE IF Includes(lower, <<"m", "o", "n", "o">>) \/ Includes(lower, <<"c", "o", "u", "r", "i", "e", "r">>)
        THEN quoted \o monospace
        ELSE quoted \o sansSerif

K_color == <<"c", "o", "l", "o", "r">>
K_font_family == <<"f", "o", "n", "t", "-", "f", "a", "m", "i", "l", "y">>
K_font_weight == <<"f", "o", "n", "t", "-", "w", "e", "i", "g", "h", "t">>
K_font_style == <<"f", "o", "n", "t", "-", "s", "t", "y", "l", "e">>
K_font_size == <<"f", "o", "n", "t", "-", "s", "i", "z", "e">>
K_line_height == <<"l", "i", "n", "e", "-", "h", "e", "i", "g", "h", "t">>
K_text_decoration == <<"t", "e", "x", "t", "-", "d", "e", "c", "o", "r", "a", "t", "i", "o", "n">>
V_700 == <<"7", "0", "0">>
V_400 == <<"4", "0", "0">>
V_italic == <<"i", "t", "a", "l", "i", "c">>
V_normal == <<"n", "o", "r", "m", "a", "l">>

\* styleObj[key]: << >> when the key is absent, <<value>> otherwise
ObjGet(styleObj, key) ==
    IF \E i \in 1..Len(styleObj) : styleObj[i][1] = key
    THEN <<styleObj[CHOOSE i \in 1..Len(styleObj) : styleObj[i][1] = key][2]>>
    ELSE << >>

ObjKeys(styleObj) == [i \in 1..Len(styleObj) |-> styleObj[i][1]]

\* style is a text segment: fills, fontName, fontSize, lineHeight, textDecoration
getSegmentStyleObject(style, parentBgColor) ==
    LET Color(colorHex) ==
            IF style.fills # << >> /\ colorHex # << >> THEN <<<<K_color, colorHex>>>>
            ELSE << >>
        f_style == ToLowerCase(style.fontName.style) \o << >>
    IN  Color(getEffectiveBackgroundColorForFills(style.fills, parentBgColor).hex)
        \o (IF style.fontName.family # << >>
            THEN << <<K_font_family, getFontStack(style.fontName.family)>>,
                    <<K_font_weight, IF Includes(f_style, <<"b", "o", "l", "d">>) THEN V_700 ELSE V_400>>,
                    <<K_font_style, IF Includes(f_style, <<"i", "t", "a", "l", "i", "c">>) THEN V_italic ELSE V_normal>> >>
            ELSE << >>)
        \o (IF style.fontSize # 0
            THEN <<<<K_font_size, NumToString(Round(style.fontSize)) \o S_px>>>> ELSE << >>)
        \o (IF style.lineHeight.unit = "PIXELS"
            THEN <<<<K_line_height, NumToString(Round(style.lineHeight.value)) \o S_px>>>>
            ELSE IF style.lineHeight.unit = "PERCENT"
            THEN <<<<K_line_height, NumToString(Round(style.lineHeight.value)) \o S_pct>>>>
            ELSE << >>)
        \o <<<<K_text_decoration,
               IF style.textDecoration = "UNDERLINE" THEN <<"u", "n", "d", "e", "r", "l", "i", "n", "e">> ELSE <<"n", "o", "n", "e">>>>>>

styleObjectToCssString(styleObj) ==
    IF styleObj = << >> THEN << >>
    ELSE Join([i \in 1..Len(styleObj) |-> styleObj[i][1] \o <<":">> \o styleObj[i][2]], <<";">>)
            \o <<";">>

\* the keys of segmentStyle whose value in baseStyle is another or missing
diffStyleObjects(baseStyle, segmentStyle) ==
    LET Differs(kv) == ObjGet(baseStyle, kv[1]) # <<kv[2]>>
    IN  SelectSeq(segmentStyle, Differs)

\* the glyph U+2022 is the one-character string "U+2022"
BulletGlyph == "U+2022"

bulletCharacterMap ==
    << <<<<BulletGlyph>>, <<"&", "#", "8", "2", "2", "6", ";">>>>, <<<<"*">>, <<"&", "#", "8", "2", "2", "6", ";">>>>, <<<<"-">>, <<"&", "#", "8", "2", "1", "1", ";">>>> >>

\* String.prototype.replace(/c/g, rep) for a one-character pattern
RECURSIVE ReplaceAll(_, _, _)
ReplaceAll(s, c, rep) ==
    IF s = << >> THEN << >>
    ELSE (IF Head(s) = c THEN rep ELSE <<Head(s)>>) \o ReplaceAll(Tail(s), c, rep)

SanitizeChars(characters) ==
    ReplaceAll(ReplaceAll(ReplaceAll(ReplaceAll(characters,
        "&", <<"&", "a", "m", "p", ";">>), "<", <<"&", "l", "t", ";">>), ">", <<"&", "g", "t", ";">>), "\n", <<"<", "b", "r", " ", "/", ">">>)

\* an HTML token: t is the tag or kind, src the node it was written for and
\* fn the function that wrote it
Tok(t, src, fn, a) == [t |-> t, src |-> src, fn |-> fn, a |-> a]
NoAttrs == [none |-> TRUE]

\* node.characters: the segments partition it
RECURSIVE Characters(_)
Characters(segments) ==
    IF segments = << >> THEN << >>
    ELSE Head(segments).characters \o Characters(Tail(segments))

\* the tally with >= for >: among the styles that reach the greatest count,
\* the last one to reach it would win
TallyStepGe(acc, style, n) ==
    LET known == \E i \in 1..Len(acc.counts) : acc.counts[i][1] = style
        count == (IF known
                  THEN acc.counts[CHOOSE i \in 1..Len(acc.counts) : acc.counts[i][1] = style][2]
                  ELSE 0) + n
        bigger == count >= acc.maxCount
    IN  [counts |-> MapSet(acc.counts, style, count),
         maxCount |-> IF bigger THEN count ELSE acc.maxCount,
         mostCommonStyle |-> IF bigger THEN style ELSE acc.mostCommonStyle]

\* the running tally of the segments.map callback (lines 170-186):
\* acc = [counts |-> <<style, count>> pairs, maxCount, mostCommonStyle]
TallyStep(acc, style, n) ==
    LET known == \E i \in 1..Len(acc.counts) : acc.counts[i][1] = style
        count == (IF known
                  THEN acc.counts[CHOOSE i \in 1..Len(acc.counts) : acc.counts[i][1] = style][2]
                  ELSE 0) + n
        bigger == count > acc.maxCount
    IN  [counts |-> MapSet(acc.counts, style, count),
         maxCount |-> IF bigger THEN count ELSE acc.maxCount,
         mostCommonStyle |-> IF bigger THEN style ELSE acc.mostCommonStyle]

RECURSIVE Tally(_, _)
Tally(acc, styles) ==
    IF styles = << >> THEN acc
    ELSE Tally(TallyStep(acc, Head(styles).style, Head(styles).n), Tail(styles))

\* the markup of one run (lines 197-223)
SegmentHtml(id, baseStyle, segmentStyle, characters) ==
    LET Emit(styleDiff, finalContent) ==
            LET diffKeys == ObjKeys(styleDiff)
                tag == IF Len(diffKeys) = 1 /\ diffKeys[1] = K_font_weight
                          /\ ObjGet(styleDiff, K_font_weight) = <<V_700>>
                       THEN "strong"
                       ELSE IF Len(diffKeys) = 1 /\ diffKeys[1] = K_font_style
                               /\ ObjGet(styleDiff, K_font_style) = <<V_italic>>
                       THEN "i"
                       ELSE "span"
                diffCss == styleObjectToCssString(styleDiff)
                content == Tok("text", id, "processTextNode", [chars |-> finalContent])
            IN  IF finalContent = << >> THEN << >>
                ELSE IF styleDiff = << >> THEN <<content>>
                ELSE <<Tok("<" \o tag, id, "processTextNode", [style |-> diffCss]), content,
                       Tok("</" \o tag, id, "processTextNode", NoAttrs)>>
        \* bulletCharacterMap[sanitizedChars.trim()] || sanitizedChars
        Content(sanitizedChars) ==
            LET Mapped(mapped) == IF mapped # << >> THEN mapped[1] ELSE sanitizedChars
            IN  Mapped(ObjGet(bulletCharacterMap, Trim(sanitizedChars)))
    IN  Emit(diffStyleObjects(baseStyle, segmentStyle), Content(SanitizeChars(characters)))

processTextNode(node, parentBgColor) ==
    LET segments == node.segments
        empty == [baseStyle |-> << >>, innerHtml |-> << >>]
        \* processedSegments: the style and the length of every segment
        Emit(styles) ==
            LET WithBase(baseStyle) ==
                    [baseStyle |-> baseStyle,
                     innerHtml |-> Flatten([i \in 1..Len(segments) |->
                                     SegmentHtml(node.id, baseStyle, styles[i].style,
                                                 segments[i].characters)])]
                \* the fallback of lines 189-192
                Pick(tally) == IF tally.mostCommonStyle = << >> THEN styles[1].style
                               ELSE tally.mostCommonStyle
            IN  WithBase(Pick(Tally([counts |-> << >>, maxCount |-> -1,
                                     mostCommonStyle |-> << >>], styles)))
    IN  IF Trim(Characters(segments)) = << >> \/ segments = << >> THEN empty
        ELSE Emit([i \in 1..Len(segments) |->
                     [style |-> getSegmentStyleObject(segments[i], parentBgColor),
                      n |-> Len(segments[i].characters)]] \o << >>)

(***************************************************************************)
(* Layout engine.  opts is the parser's configuration: imageExportMode     *)
(* and useLiteralWidth.  anc is the chain of the node's ancestors inside   *)
(* the selection (node.parent, its parent, ...), the outermost first.      *)
(***************************************************************************)
ContainerTypes == {"FRAME", "GROUP", "COMPONENT", "INSTANCE"}

\* 'layoutMode' in node, 'paddingLeft' in node, ...: a group has none of them
HasLayout(node) == node.type \in {"FRAME", "COMPONENT", "INSTANCE"}

LayoutModeOf(node) == IF HasLayout(node) THEN node.layoutMode ELSE "NONE"
PaddingLeftOf(node) == IF HasLayout(node) THEN node.paddingLeft ELSE 0
PaddingRightOf(node) == IF HasLayout(node) THEN node.paddingRight ELSE 0
PaddingTopOf(node) == IF HasLayout(node) THEN node.paddingTop ELSE 0
PaddingBottomOf(node) == IF HasLayout(node) THEN node.paddingBottom ELSE 0

IsVisible(c) == c.visible

Min(a, b) == IF a <= b THEN a ELSE b

\* a value of a message as JavaScript tests it in a condition
Truthy(v) == v \notin {"false", "undefined", "null"}

\* Array.prototype.sort((a, b) => a.y - b.y): stable
RECURSIVE InsertByY(_, _)
InsertByY(sorted, x) ==
    IF sorted = << >> THEN <<x>>
    ELSE IF sorted[Len(sorted)].y <= x.y THEN Append(sorted, x)
    ELSE Append(InsertByY(SubSeq(sorted, 1, Len(sorted) - 1), x), sorted[Len(sorted)])

RECURSIVE SortByY(_)
SortByY(nodes) ==
    IF nodes = << >> THEN << >>
    ELSE InsertByY(SortByY(SubSeq(nodes, 1, Len(nodes) - 1)), nodes[Len(nodes)])

\* an attribute that is a percentage or a number
Pct(n) == [unit |-> "%", n |-> n]
Num(n) == [unit |-> "", n |-> n]

RECURSIVE isImageLikeNode(_)
isImageLikeNode(node) ==
    IF node.type \in {"RECTANGLE", "ELLIPSE"}
       /\ \E i \in 1..Len(node.fills) : node.fills[i].type = "IMAGE"
    THEN TRUE
    ELSE IF node.type \in {"VECTOR", "LINE"} THEN TRUE
    ELSE IF node.type \in ContainerTypes /\ Len(node.children) > 0
    THEN \A i \in 1..Len(node.children) :
            node.children[i].type # "TEXT" /\ isImageLikeNode(node.children[i])
    ELSE FALSE

isBulletPoint(node) ==
    IF node.type # "FRAME" \/ ~node.visible \/ node.layoutMode # "HORIZONTAL"
       \/ Len(node.children) # 2
    THEN FALSE
    ELSE IF node.children[1].type # "TEXT" \/ node.children[2].type # "TEXT" THEN FALSE
    ELSE LET bulletChar == Trim(Characters(node.children[1].segments))
         IN  Len(bulletChar) = 1 /\ ObjGet(bulletCharacterMap, bulletChar) # << >>

\* `<tr><td height=.. style="height:..; font-size:..; line-height:..;" ..>&nbsp;</td></tr>`
FillerStyle(h) ==
    <<"h", "e", "i", "g", "h", "t", ":">> \o NumToString(h) \o <<"p", "x", ";", " ", "f", "o", "n", "t", "-", "s", "i", "z", "e", ":">> \o NumToString(h)
        \o <<"p", "x", ";", " ", "l", "i", "n", "e", "-", "h", "e", "i", "g", "h", "t", ":">> \o NumToString(h) \o <<"p", "x", ";">>

\* the style of a top or bottom padding row
PaddingStyle(h) ==
    <<"f", "o", "n", "t", "-", "s", "i", "z", "e", ":">> \o NumToString(h) \o <<"p", "x", ";", " ", "l", "i", "n", "e", "-", "h", "e", "i", "g", "h", "t", ":">> \o NumToString(h) \o <<"p", "x", ";">>

Row(id, fn, cells) == <<Tok("<tr", id, fn, NoAttrs)>> \o cells \o <<Tok("</tr", id, fn, NoAttrs)>>

Cell(id, fn, a, content) ==
    <<Tok("<td", id, fn, a)>> \o content \o <<Tok("</td", id, fn, NoAttrs)>>

Nbsp(id, fn) == <<Tok("&nbsp;", id, fn, NoAttrs)>>

Table(id, fn, a, content) ==
    <<Tok("<table", id, fn, a)>> \o content \o <<Tok("</table", id, fn, NoAttrs)>>

\* tdStyle of a text cell (lines 372-376 and 506-511)
\* if (style && !style.endsWith(';')) style += ';'
WithSemicolon(style) ==
    IF style # << >> /\ ~EndsWith(style, <<";">>) THEN style \o <<";">> ELSE style

TextCellStyle(node, baseStyle, anc) ==
    LET textAlign == ToLowerCase(node.textAlignHorizontal)
    IN  WithSemicolon(sanitizeStyles(cleanZeroValueStyles(
            <<"t", "e", "x", "t", "-", "a", "l", "i", "g", "n", ":">> \o textAlign \o <<";">>
              \o styleObjectToCssString(baseStyle) \o getBorderStyles(node, anc))))

TextRow(node, fn, text, anc) ==
    Row(node.id, fn,
            Cell(node.id, fn,
                 [align |-> ToLowerCase(node.textAlignHorizontal),
                  style |-> TextCellStyle(node, text.baseStyle, anc)],
                 text.innerHtml))

renderText(node, parentBgColor, anc) ==
    IF Trim(Characters(node.segments)) = << >> THEN << >>
    ELSE LET Emit(text) ==
                 IF text.innerHtml = << >> THEN << >>
                 ELSE Table(node.id, "renderText", [width |-> Pct(100), role |-> ""],
                            TextRow(node, "renderText", text, anc))
         IN  Emit(processTextNode(node, parentBgColor))

renderBulletPoint(node, parentBgColor) ==
    LET fn == "renderBulletPoint"
        Emit(bullet, text) ==
            LET bulletTdStyle == WithSemicolon(sanitizeStyles(
                                     <<"w", "i", "d", "t", "h", ":", "1", "%", ";">> \o styleObjectToCssString(bullet.baseStyle)))
                textTdStyle == WithSemicolon(sanitizeStyles(
                                   styleObjectToCssString(text.baseStyle)))
            IN  Table(node.id, fn, [width |-> Pct(100), role |-> "presentation"],
                      Row(node.id, fn,
                          Cell(node.id, fn, [style |-> bulletTdStyle, valign |-> "top"],
                               bullet.innerHtml)
                          \o Cell(node.id, fn, [width |-> Num(node.itemSpacing)],
                                  Nbsp(node.id, fn))
                          \o Cell(node.id, fn, [style |-> textTdStyle, valign |-> "top"],
                                  text.innerHtml)))
    IN  Emit(processTextNode(node.children[1], parentBgColor),
             processTextNode(node.children[2], parentBgColor))

\* [a, b, ...].filter(Boolean).join(";")
JoinNonEmpty(parts) ==
    LET NonEmpty(p) == p # << >> IN Join(SelectSeq(parts, NonEmpty), <<";">>)

renderShape(node, parentBgColor, anc) ==
    IF node.width < Unit \/ node.height < Unit THEN << >>
    ELSE LET fn == "renderShape"
             finalHeight == Round(node.height)
             Emit(bgColorHex) ==
                 LET cellStyles == WithSemicolon(sanitizeStyles(cleanZeroValueStyles(
                         JoinNonEmpty(<<
                             IF bgColorHex # << >> THEN <<"b", "a", "c", "k", "g", "r", "o", "u", "n", "d", "-", "c", "o", "l", "o", "r", ":">> \o bgColorHex
                             ELSE << >>,
                             <<"h", "e", "i", "g", "h", "t", ":">> \o NumToString(finalHeight) \o <<"p", "x", ";">>,
                             <<"f", "o", "n", "t", "-", "s", "i", "z", "e", ":", "1", "p", "x", ";">>, <<"l", "i", "n", "e", "-", "h", "e", "i", "g", "h", "t", ":", "1", "p", "x", ";">>,
                             getBorderStyles(node, anc)>>))))
                 IN  Table(node.id, fn,
                           [width |-> Pct(100), height |-> finalHeight, role |-> ""],
                           Row(node.id, fn,
                               Cell(node.id, fn,
                                    [bgcolor |-> bgColorHex, style |-> cellStyles],
                                    Nbsp(node.id, fn))))
         IN  Emit(getEffectiveBackgroundColor(node, parentBgColor).hex)

\* renderImage with the catch of lines 561-563 writing nothing
renderImageDropsFailed(node, parentWidth, mode) ==
    IF node.width < Unit \/ node.height < Unit THEN << >>
    ELSE IF mode = "placeholder" \/ (mode = "base64" /\ ~node.exportFails)
    THEN <<Tok("<img", node.id, "renderImage",
               [src |-> mode, width |-> Num(Min(Round(node.width) * Unit, parentWidth)),
                h |-> Round(node.height),
                alt |-> IF node.name = "" THEN "Image" ELSE node.name])>>
    ELSE << >>

\* node.exportAsync throws when node.exportFails; the bytes are not modelled
renderImage(node, parentWidth, mode) ==
    IF node.width < Unit \/ node.height < Unit THEN << >>
    ELSE LET fn == "renderImage"
             finalWidth == Min(Round(node.width) * Unit, parentWidth)
             altText == IF node.name = "" THEN "Image" ELSE node.name
             img(kind) == <<Tok("<img", node.id, fn,
                               [src |-> kind, width |-> Num(finalWidth),
                                h |-> Round(node.height), alt |-> altText])>>
         IN  IF mode = "placeholder" THEN img("placeholder")
             ELSE IF node.exportFails
             THEN <<Tok("<p", node.id, fn, [error |-> altText])>>
             ELSE IF mode = "base64" THEN img("base64")
             ELSE << >>

RECURSIVE renderNode(_, _, _, _, _)
RECURSIVE renderContainer(_, _, _, _, _, _)
RECURSIVE getStackedRows(_, _, _, _, _)
RECURSIVE StackLoop(_, _, _, _, _)
RECURSIVE HorizontalCells(_, _, _, _, _)

\* the last index of the run of consecutive TEXT children that starts at i
RECURSIVE TextGroupEnd(_, _)
TextGroupEnd(children, i) ==
    IF i < Len(children) /\ children[i + 1].type = "TEXT"
    THEN TextGroupEnd(children, i + 1) ELSE i

\* the row of one text of a text group (lines 370-378)
TextRowOf(textNode, text, anc) ==
    IF text.innerHtml # << >> THEN <<TextRow(textNode, "getStackedRows", text, anc)>>
    ELSE << >>

\* the rows of a text group (lines 361-380): the texts group[k..], with the
\* bottom of the text before
RECURSIVE TextRows(_, _, _, _, _)
TextRows(group, k, lastTextNodeInGroupBottomY, c, parentId) ==
    IF k > Len(group) THEN << >>
    ELSE LET textNode == group[k]
             fn == "getStackedRows"
             gapWithinGroup == Round(textNode.y - lastTextNodeInGroupBottomY)
             gapRow == IF k > 1 /\ gapWithinGroup > 2
                       THEN <<Row(parentId, fn,
                                  Cell(parentId, fn,
                                       [height |-> gapWithinGroup,
                                        style |-> FillerStyle(gapWithinGroup)],
                                       Nbsp(parentId, fn)))>>
                       ELSE << >>
         IN  gapRow \o TextRowOf(textNode, processTextNode(textNode, c.parentBgColor),
                                 c.anc)
               \o TextRows(group, k + 1, textNode.y + textNode.height, c, parentId)

\* the gutter cells of a row
Gutter(id, padding) ==
    IF padding > 0
    THEN Cell(id, "getStackedRows", [class |-> "gutter", width |-> Num(padding)],
              Nbsp(id, "getStackedRows"))
    ELSE << >>

\* the for loop of getStackedRows (lines 343-398) from index i on;
\* c = [parentNode, availableWidth, parentBgColor, opts, anc]
StackLoop(children, i, lastBottomY, rows, c) ==
    IF i > Len(children) THEN rows
    ELSE LET fn == "getStackedRows"
             id == c.parentNode.id
             paddingLeft == PaddingLeftOf(c.parentNode)
             paddingRight == PaddingRightOf(c.parentNode)
             colSpan == 1 + (IF paddingLeft > 0 THEN 1 ELSE 0)
                          + (IF paddingRight > 0 THEN 1 ELSE 0)
             child == children[i]
             verticalGap == Round(child.y - lastBottomY)
             gapRows == IF verticalGap > 2
                        THEN <<Row(id, fn,
                                   Cell(id, fn,
                                        [height |-> verticalGap,
                                         style |-> FillerStyle(verticalGap),
                                         colspan |-> colSpan],
                                        Nbsp(id, fn)))>>
                        ELSE << >>
         IN  IF child.type = "TEXT"
             THEN LET j == TextGroupEnd(children, i)
                      textGroup == SubSeq(children, i, j)
                      last == children[j]
                      GroupRows(textRows) ==
                          IF paddingLeft = 0 /\ paddingRight = 0 THEN textRows
                          ELSE <<Row(id, fn,
                                     Gutter(id, paddingLeft)
                                     \o Cell(id, fn, NoAttrs,
                                             Table(id, "getStackedRows.textGroup",
                                                   [width |-> Pct(100),
                                                    role |-> "presentation"],
                                                   Flatten(textRows)))
                                     \o Gutter(id, paddingRight))>>
                  IN  StackLoop(children, j + 1, last.y + last.height,
                                rows \o gapRows
                                  \o GroupRows(TextRows(textGroup, 1, child.y, c, id)), c)
             ELSE LET ChildRows(childHtml) ==
                          IF childHtml # << >>
                          THEN <<Row(id, fn,
                                     Gutter(id, paddingLeft)
                                     \o Cell(id, fn, NoAttrs, childHtml)
                                     \o Gutter(id, paddingRight))>>
                          ELSE << >>
                  IN  StackLoop(children, i + 1, child.y + child.height,
                                rows \o gapRows
                                  \o ChildRows(renderNode(child, c.availableWidth,
                                                          c.parentBgColor, c.opts, c.anc)),
                                c)

\* the rows are a sequence of token sequences; anc already ends with parentNode
getStackedRows(parentNode, parentWidth, parentBgColor, opts, anc) ==
    LET visibleChildren == SelectSeq(parentNode.children, IsVisible)
        children == IF HasLayout(parentNode) /\ parentNode.layoutMode # "VERTICAL"
                    THEN SortByY(visibleChildren) ELSE visibleChildren
        paddingLeft == PaddingLeftOf(parentNode)
        paddingRight == PaddingRightOf(parentNode)
        paddingTop == PaddingTopOf(parentNode)
        availableWidth == parentWidth - paddingLeft - paddingRight
        fn == "getStackedRows"
    IN  IF children = << >> THEN << >>
        ELSE IF Len(children) = 1 /\ paddingLeft = 0 /\ paddingRight = 0
                /\ Round(children[1].y - paddingTop) <= 2
        THEN LET Unwrapped(childHtml) ==
                     IF childHtml # << >>
                     THEN <<Row(parentNode.id, fn,
                                Cell(parentNode.id, fn, NoAttrs, childHtml))>>
                     ELSE << >>
             IN  Unwrapped(renderNode(children[1], availableWidth, parentBgColor,
                                      opts, anc))
        ELSE StackLoop(children, 1, paddingTop, << >>,
                       [parentNode |-> parentNode, availableWidth |-> availableWidth,
                        parentBgColor |-> parentBgColor, opts |-> opts, anc |-> anc])

\* the cells of the children of a horizontal container from index i on (lines 478-488)
HorizontalCells(node, children, i, effectiveBgRgb, c) ==
    IF i > Len(children) THEN << >>
    ELSE Cell(node.id, "renderContainer",
              [valign |-> IF node.counterAxisAlignItems = "MAX" THEN "bottom"
                          ELSE IF node.counterAxisAlignItems = "CENTER" THEN "middle"
                          ELSE "top"],
              renderNode(children[i], children[i].width, effectiveBgRgb, c.opts, c.anc))
         \o (IF i < Len(children) /\ Round(node.itemSpacing) > 0
             THEN Cell(node.id, "renderContainer",
                       [width |-> Num(Round(node.itemSpacing))],
                       Nbsp(node.id, "renderContainer"))
             ELSE << >>)
         \o HorizontalCells(node, children, i + 1, effectiveBgRgb, c)

\* a top or bottom padding row
PaddingRow(id, padding, colSpan) ==
    IF padding > 0
    THEN Row(id, "renderContainer",
             Cell(id, "renderContainer",
                  [height |-> padding, style |-> PaddingStyle(padding), colspan |-> colSpan],
                  Nbsp(id, "renderContainer")))
    ELSE << >>

\* the attributes of the container's table (lines 422-432); tableStyles is the
\* sanitized style with its closing semicolon
TableAttributes(width, opts, bgColorHex, tableStyles) ==
    IF Truthy(opts.useLiteralWidth)
    THEN [width |-> Num(width), style |-> tableStyles,
          bgcolor |-> bgColorHex, role |-> "presentation"]
    ELSE [width |-> Pct(100),
          style |-> IF tableStyles # << >>
                    THEN <<"w", "i", "d", "t", "h", ":", " ", "1", "0", "0", "%", ";", " ">> \o tableStyles ELSE << >>,
          bgcolor |-> bgColorHex, role |-> "presentation"]

\* the table of a stacked container (lines 448-459)
StackedTable(node, tableAttributes, bare, rows) ==
    LET colSpan == 1 + (IF PaddingLeftOf(node) > 0 THEN 1 ELSE 0)
                     + (IF PaddingRightOf(node) > 0 THEN 1 ELSE 0)
    IN  IF rows = << >> /\ bare THEN << >>
        ELSE Table(node.id, "renderContainer", tableAttributes,
                   PaddingRow(node.id, Round(PaddingTopOf(node)), colSpan)
                   \o Flatten(rows)
                   \o PaddingRow(node.id, Round(PaddingBottomOf(node)), colSpan))

\* a left or right padding cell of a horizontal container
SideCell(id, padding) ==
    IF padding > 0
    THEN Cell(id, "renderContainer", [width |-> Num(padding)],
              Nbsp(id, "renderContainer"))
    ELSE << >>

\* the table of a horizontal container (lines 463-497)
HorizontalTable(node, tableAttributes, n, cells) ==
    LET spacerCount == IF n > 1 THEN n - 1 ELSE 0
        colSpan == n + spacerCount + (IF PaddingLeftOf(node) > 0 THEN 1 ELSE 0)
                     + (IF PaddingRightOf(node) > 0 THEN 1 ELSE 0)
    IN  Table(node.id, "renderContainer", tableAttributes,
              PaddingRow(node.id, Round(PaddingTopOf(node)), colSpan)
              \o Row(node.id, "renderContainer",
                     SideCell(node.id, PaddingLeftOf(node))
                     \o cells
                     \o SideCell(node.id, PaddingRightOf(node)))
              \o PaddingRow(node.id, Round(PaddingBottomOf(node)), colSpan))

\* renderContainer without the unwrap of lines 438-445: every container that
\* is not horizontal would be a table
ContainerBodyWithoutUnwrap(node, c, bg, border, tableAttributes) ==
    LET children == SelectSeq(node.children, IsVisible)
        bare == bg.hex = << >> /\ border = << >>
    IN  IF children = << >> /\ bare THEN << >>
        ELSE IF LayoutModeOf(node) # "HORIZONTAL"
        THEN StackedTable(node, tableAttributes, bare,
                          getStackedRows(node, c.parentWidth, bg.rgb, c.opts,
                                         Append(c.anc, node)))
        ELSE HorizontalTable(node, tableAttributes, Len(children),
                             HorizontalCells(node, children, 1, bg.rgb,
                                             [opts |-> c.opts, anc |-> Append(c.anc, node)]))

\* renderContainer with the unwrap of lines 438-445 not asking for !isRoot:
\* the selected frame on the page would be unwrapped too
ContainerBodyUnwrapsRoot(node, c, bg, border, tableAttributes) ==
    LET children == SelectSeq(node.children, IsVisible)
        bare == bg.hex = << >> /\ border = << >>
    IN  IF children = << >> /\ bare THEN << >>
        ELSE IF LayoutModeOf(node) # "HORIZONTAL"
        THEN IF Len(children) = 1 /\ bare
                /\ PaddingLeftOf(node) = 0 /\ PaddingRightOf(node) = 0
                /\ children[1].y - Round(PaddingTopOf(node)) * Unit <= 2 * Unit
                /\ Round(PaddingTopOf(node)) = 0 /\ Round(PaddingBottomOf(node)) = 0
             THEN renderNode(children[1], c.parentWidth, c.parentBgColor, c.opts,
                             Append(c.anc, node))
             ELSE StackedTable(node, tableAttributes, bare,
                               getStackedRows(node, c.parentWidth, bg.rgb, c.opts,
                                              Append(c.anc, node)))
        ELSE HorizontalTable(node, tableAttributes, Len(children),
                             HorizontalCells(node, children, 1, bg.rgb,
                                             [opts |-> c.opts, anc |-> Append(c.anc, node)]))

\* renderContainer once the background and the border are known:
\* bg is {hex: bgColorHex, rgb: effectiveBgRgb}, border is getBorderStyles(node),
\* tableAttributes the attributes of the table, c the arguments of renderContainer
ContainerBody(node, c, bg, border, tableAttributes) ==
    LET children == SelectSeq(node.children, IsVisible)
        bare == bg.hex = << >> /\ border = << >>
    IN  IF children = << >> /\ bare THEN << >>
        ELSE IF LayoutModeOf(node) # "HORIZONTAL"
        THEN IF Len(children) = 1 /\ bare
                /\ PaddingLeftOf(node) = 0 /\ PaddingRightOf(node) = 0
                /\ children[1].y - Round(PaddingTopOf(node)) * Unit <= 2 * Unit
                /\ Round(PaddingTopOf(node)) = 0 /\ Round(PaddingBottomOf(node)) = 0
                /\ ~c.isRoot
             THEN renderNode(children[1], c.parentWidth, c.parentBgColor, c.opts,
                             Append(c.anc, node))
             ELSE StackedTable(node, tableAttributes, bare,
                               getStackedRows(node, c.parentWidth, bg.rgb, c.opts,
                                              Append(c.anc, node)))
        ELSE HorizontalTable(node, tableAttributes, Len(children),
                             HorizontalCells(node, children, 1, bg.rgb,
                                             [opts |-> c.opts, anc |-> Append(c.anc, node)]))

\* line 419: if (tableStyles) tableStyles += ';'
Terminated(tableStyles) ==
    IF tableStyles # << >> THEN tableStyles \o <<";">> ELSE tableStyles

\* the styles of the container's table (line 418)
ContainerStyles(bgColorHex, border) ==
    sanitizeStyles(cleanZeroValueStyles(JoinNonEmpty(<<
        IF bgColorHex # << >> THEN <<"b", "a", "c", "k", "g", "r", "o", "u", "n", "d", "-", "c", "o", "l", "o", "r", ":">> \o bgColorHex ELSE << >>,
        border>>)))

ContainerTable(node, c, bg, border) ==
    ContainerBody(node, c, bg, border,
                  TableAttributes(IF c.isRoot THEN c.parentWidth
                                  ELSE Min(node.width, c.parentWidth),
                                  c.opts, bg.hex,
                                  Terminated(ContainerStyles(bg.hex, border))))

renderContainer(node, parentWidth, parentBgColor, isRoot, opts, anc) ==
    ContainerTable(node,
                   [parentWidth |-> parentWidth, parentBgColor |-> parentBgColor,
                    isRoot |-> isRoot, opts |-> opts, anc |-> anc],
                   getEffectiveBackgroundColor(node, parentBgColor),
                   getBorderStyles(node, anc))

renderNode(node, parentWidth, parentBgColor, opts, anc) ==
    IF ~node.visible THEN << >>
    ELSE IF node.opacity = QZero THEN << >>
    ELSE IF isImageLikeNode(node) THEN renderImage(node, parentWidth, opts.imageExportMode)
    ELSE IF node.type \in ContainerTypes
    THEN IF isBulletPoint(node) THEN renderBulletPoint(node, parentBgColor)
         ELSE renderContainer(node, parentWidth, parentBgColor, FALSE, opts, anc)
    ELSE IF node.type \in {"RECTANGLE", "ELLIPSE"} THEN renderShape(node, parentBgColor, anc)
    ELSE IF node.type = "TEXT" THEN renderText(node, parentBgColor, anc)
    ELSE << >>

\* the loop of parse over several roots (lines 585-599)
RECURSIVE ParseLoop(_, _, _, _)
ParseLoop(sortedNodes, i, lastBottomY, opts) ==
    IF i > Len(sortedNodes) THEN << >>
    ELSE LET node == sortedNodes[i]
             gap == Round(node.y - lastBottomY)
             gapRow == IF i > 1 /\ gap > 2
                       THEN Row("selection", "parse",
                                Cell("selection", "parse",
                                     [height |-> gap, style |-> FillerStyle(gap)],
                                     Nbsp("selection", "parse")))
                       ELSE << >>
             NodeRow(nodeHtml) ==
                 IF nodeHtml # << >>
                 THEN Row("selection", "parse",
                          Cell("selection", "parse", NoAttrs, nodeHtml))
                 ELSE << >>
         IN  gapRow \o NodeRow(renderNode(node, node.width, White, opts, << >>))
               \o ParseLoop(sortedNodes, i + 1,
                            IF node.visible THEN node.y + node.height ELSE lastBottomY,
                            opts)

parse(nodes, opts) ==
    IF nodes = << >> THEN << >>
    ELSE IF Len(nodes) = 1
    THEN LET node == nodes[1]
         IN  IF node.type \in {"FRAME", "COMPONENT", "INSTANCE"}
             THEN renderContainer(node, node.width, White, node.parentIsPage, opts, << >>)
             ELSE renderNode(node, node.width, White, opts, << >>)
    ELSE LET sortedNodes == SortByY(nodes)
         IN  ParseLoop(sortedNodes, 1, sortedNodes[1].y, opts)

\* never called by the code: the table of a container's stacked rows
renderStackedChildren(parentNode, parentWidth, parentBgColor, opts, anc) ==
    LET Stacked(rows) ==
            IF rows = << >> THEN << >>
            ELSE Table(parentNode.id, "renderStackedChildren",
                       [width |-> Pct(100), role |-> "presentation"], Flatten(rows))
    IN  Stacked(getStackedRows(parentNode, parentWidth, parentBgColor, opts, anc))

(***************************************************************************)
(* The plugin: the message handler and processSelection.                   *)
(***************************************************************************)
NoMessage == [type |-> "none", html |-> << >>, assets |-> << >>, notified |-> FALSE]

\* what processSelection posts to the UI, with whether it notified the user.
\* The fonts collectAndLoadAllFonts loads do not change what parse returns.
processSelection(selectedNodes, imageExportMode, useLiteralWidth) ==
    IF selectedNodes = << >>
    THEN [type |-> "generated-html", html |-> << >>, assets |-> << >>, notified |-> TRUE]
    ELSE [type |-> "generated-html",
          html |-> parse(selectedNodes,
                         [imageExportMode |-> imageExportMode,
                          useLiteralWidth |-> useLiteralWidth]),
          assets |-> << >>,
          notified |-> FALSE]

(***************************************************************************)
(* Design nodes.  Every node is a record of the same shape; the fields a   *)
(* node type does not have in Figma are never read for that type.          *)
(***************************************************************************)
Black == Rgb(QZero, QZero, QZero)
Red == Rgb(QOne, QZero, QZero)
Half == Q(1, 2)

Solid(color, opacity, visible) ==
    [type |-> "SOLID", visible |-> visible, color |-> color, opacity |-> opacity,
     gradientStops |-> << >>]

Gradient(color, alpha, visible) ==
    [type |-> "GRADIENT_LINEAR", visible |-> visible, color |-> Black,
     opacity |-> <<QOne>>,
     gradientStops |-> <<[color |-> [r |-> color.r, g |-> color.g, b |-> color.b,
                                    a |-> alpha]]>>]

ImageFill ==
    [type |-> "IMAGE", visible |-> TRUE, color |-> Black, opacity |-> <<QOne>>,
     gradientStops |-> << >>]

\* a text segment as getStyledTextSegments returns it
Segment(characters, fontStyle) ==
    [characters |-> characters, fills |-> <<Solid(Black, <<QOne>>, TRUE)>>,
     fontName |-> [family |-> <<"I", "n", "t", "e", "r">>, style |-> fontStyle],
     fontSize |-> 16 * Unit, lineHeight |-> [unit |-> "PIXELS", value |-> 24 * Unit],
     textDecoration |-> "NONE"]

F_Regular == <<"R", "e", "g", "u", "l", "a", "r">>
F_Bold == <<"B", "o", "l", "d">>
F_Italic == <<"I", "t", "a", "l", "i", "c">>
F_BoldItalic == <<"B", "o", "l", "d", " ", "I", "t", "a", "l", "i", "c">>

Node(id, type) ==
    [id |-> id, name |-> id, type |-> type, visible |-> TRUE, opacity |-> QOne,
     y |-> 0, width |-> 100 * Unit, height |-> 20 * Unit,
     fills |-> << >>, strokes |-> << >>, strokeWeight |-> 0,
     layoutMode |-> "NONE", paddingTop |-> 0, paddingBottom |-> 0,
     paddingLeft |-> 0, paddingRight |-> 0, itemSpacing |-> 0,
     counterAxisAlignItems |-> "MIN", children |-> << >>, segments |-> << >>,
     textAlignHorizontal |-> <<"L", "E", "F", "T">>, exportFails |-> FALSE, parentIsPage |-> FALSE]

TextNode(id, characters) ==
    [Node(id, "TEXT") EXCEPT !.segments = <<Segment(characters, F_Regular)>>]

RectNode(id) ==
    [Node(id, "RECTANGLE") EXCEPT !.fills = <<Solid(Red, <<QOne>>, TRUE)>>]

VectorNode(id) == Node(id, "VECTOR")

Container(id, type, layoutMode, children) ==
    [Node(id, type) EXCEPT !.layoutMode = layoutMode, !.children = children]

\* the nodes of a tree, the root first
RECURSIVE NodesOf(_)
RECURSIVE NodesOfAll(_)
NodesOf(node) == <<node>> \o NodesOfAll(node.children)
NodesOfAll(nodes) ==
    IF nodes = << >> THEN << >> ELSE NodesOf(Head(nodes)) \o NodesOfAll(Tail(nodes))

NoRequest == [type |-> "none", imageExportMode |-> "undefined", useLiteralWidth |-> "undefined"]

Idle == /\ selection = << >>
        /\ request = NoRequest
        /\ posted = NoMessage
        /\ inFlight = {}
        /\ log = << >>
        /\ pending = << >>

\* all strings over an alphabet of at most n characters
Strings(alphabet, n) == UNION {[1..m -> alphabet] : m \in 0..n}

\* at most n of the parts, joined by sep
RECURSIVE Lists(_, _)
Lists(parts, n) ==
    IF n = 0 THEN {<< >>}
    ELSE Lists(parts, n - 1)
         \cup {Append(l, p) : l \in {x \in Lists(parts, n - 1) : Len(x) = n - 1}, p \in parts}


(***************************************************************************)
(* The selections the plugin is run on: bounded families of design trees.  *)
(***************************************************************************)
MaxDepth == 3
MaxChildren == 2
MaxRoots == 3

At(node, y) == [node EXCEPT !.y = y]
OnPage(node, b) == [node EXCEPT !.parentIsPage = b]
Shown(node, visible, opacity) == [node EXCEPT !.visible = visible, !.opacity = opacity]

GrayFill == Solid(Rgb(Half, Half, Half), <<QOne>>, TRUE)
BlackStroke == Solid(Black, <<QOne>>, TRUE)

\* ---- wrappers nested around one leaf ----
WrapVariants ==
    {"plain", "group", "bg", "border", "padTop", "padSide", "horizontal", "offset3",
     "offsetFrac"}

Wrap(variant, id, child) ==
    LET w == Container(id, "FRAME", "VERTICAL", <<At(child, 0)>>)
    IN  CASE variant = "plain" -> w
          [] variant = "group" -> Container(id, "GROUP", "NONE", <<At(child, 0)>>)
          [] variant = "bg" -> [w EXCEPT !.fills = <<GrayFill>>]
          [] variant = "border" ->
                [w EXCEPT !.strokes = <<BlackStroke>>, !.strokeWeight = Unit]
          [] variant = "padTop" ->
                [w EXCEPT !.paddingTop = 10 * Unit, !.children = <<At(child, 10 * Unit)>>]
          [] variant = "padSide" -> [w EXCEPT !.paddingLeft = 8 * Unit]
          [] variant = "horizontal" -> [w EXCEPT !.layoutMode = "HORIZONTAL"]
          [] variant = "offset3" -> [w EXCEPT !.children = <<At(child, 3 * Unit)>>]
          [] variant = "offsetFrac" -> [w EXCEPT !.children = <<At(child, 2 * Unit + 1)>>]

\* the wrappers variants[k..] around the leaf, the outermost first
RECURSIVE Chain(_, _, _)
Chain(variants, k, leaf) ==
    IF k > Len(variants) THEN leaf
    ELSE Wrap(variants[k], "w" \o ToString(k), Chain(variants, k + 1, leaf))

\* chains of plain wrappers, at most one of them special
ChainVariants ==
    {[k \in 1..d |-> IF k = p THEN v ELSE "plain"] :
        d \in 1..MaxDepth, p \in 1..MaxDepth, v \in WrapVariants}

Leaves == {TextNode("leaf", <<"a", "b">>), RectNode("leaf"), VectorNode("leaf")}

ChainSelections ==
    {<<OnPage(Chain(vs, 1, leaf), page)>> :
        vs \in ChainVariants, leaf \in Leaves, page \in BOOLEAN}

\* ---- the four positions of a hidden or transparent node ----
HiddenKinds ==
    {TextNode("x", <<"a", "b">>), RectNode("x"), VectorNode("x"),
     [Container("x", "FRAME", "VERTICAL", <<TextNode("xc", <<"c", "d">>)>>)
        EXCEPT !.fills = <<GrayFill>>]}

HiddenNodes ==
    {Shown(x, v, o) : x \in HiddenKinds, v \in BOOLEAN, o \in {QZero, QOne}}

PositionsOf(x) ==
    LET t == TextNode("t", <<"a", "b">>)
        below == At(x, 20 * Unit)
    IN  {<<OnPage(x, page)>> : page \in BOOLEAN}
        \cup {<<OnPage(Container("w", "FRAME", "VERTICAL", <<x>>), page)>> : page \in BOOLEAN}
        \cup {<<OnPage(Container("v", "FRAME", "VERTICAL", kids), TRUE)>> :
                kids \in {<<t, below>>, <<x, At(t, 20 * Unit)>>}}
        \cup {<<OnPage(Container("h", "FRAME", "HORIZONTAL", <<t, x>>), TRUE)>>}
        \cup {<<t, below>>}

HiddenSelections == UNION {PositionsOf(x) : x \in HiddenNodes}

\* ---- vertical stacks: children placed at a gap below one another ----
ChildHeight == 20

\* in quarter units: 2.25, 2.5 and 10 units
Gaps == {2 * Unit + 1, 2 * Unit + 2, 10 * Unit}

ChildSpecs == {[kind |-> k, gap |-> g] : k \in {"TEXT", "RECTANGLE"}, g \in Gaps}

\* the children specs[i..], the first one a gap below prevBottom
RECURSIVE Place(_, _, _)
Place(specs, i, prevBottom) ==
    IF i > Len(specs) THEN << >>
    ELSE LET id == "c" \o ToString(i)
             node == IF specs[i].kind = "TEXT" THEN TextNode(id, <<"a", "b">>) ELSE RectNode(id)
             y == prevBottom + specs[i].gap
         IN  <<At([node EXCEPT !.height = ChildHeight * Unit], y)>>
               \o Place(specs, i + 1, y + ChildHeight * Unit)

Stack(variant, specs) ==
    LET kids == Place(specs, 1, IF variant = "padTop" THEN 10 * Unit ELSE 0)
        s == Container("s", "FRAME", "VERTICAL", kids)
    IN  CASE variant = "vertical" -> s
          [] variant = "none" -> [s EXCEPT !.layoutMode = "NONE"]
          [] variant = "group" -> Container("s", "GROUP", "NONE", kids)
          [] variant = "padTop" -> [s EXCEPT !.paddingTop = 10 * Unit]
          [] variant = "padSide" ->
                [s EXCEPT !.paddingLeft = 8 * Unit, !.paddingRight = 8 * Unit]

\* a lone child in every kind of stack, several children in two kinds
StackVariants(specs) ==
    IF Len(specs) = 1 THEN {"vertical", "none", "group", "padTop", "padSide"}
    ELSE {"vertical", "padTop"}

\* children out of order: a frame without auto-layout sorts them, a group and
\* a vertical frame do not
Unsorted(variant) ==
    LET kids == <<At(TextNode("c1", <<"a", "b">>), 30 * Unit), At(RectNode("c2"), 0)>>
    IN  [Stack(variant, << >>) EXCEPT !.children = kids]

StackSelections ==
    UNION {{<<OnPage(Stack(v, specs), TRUE)>> : v \in StackVariants(specs)} :
             specs \in Lists(ChildSpecs, MaxChildren) \ {<< >>}}
    \cup {<<OnPage(Unsorted(v), page)>> : v \in {"vertical", "none", "group"},
                                          page \in BOOLEAN}

\* ---- several selected roots ----
RootSpecs == {[gap |-> g, visible |-> v] : g \in {Unit, 10 * Unit}, v \in BOOLEAN}

RECURSIVE PlaceRoots(_, _, _)
PlaceRoots(specs, i, prevBottom) ==
    IF i > Len(specs) THEN << >>
    ELSE LET id == "r" \o ToString(i)
             node == IF i = 1 THEN TextNode(id, <<"a", "b">>) ELSE RectNode(id)
             y == prevBottom + specs[i].gap
         IN  <<Shown(At([node EXCEPT !.height = ChildHeight * Unit], y),
                     specs[i].visible, QOne)>>
               \o PlaceRoots(specs, i + 1, y + ChildHeight * Unit)

RootSelections ==
    {PlaceRoots(specs, 1, 0) : specs \in {l \in Lists(RootSpecs, MaxRoots) : Len(l) >= 2}}

\* ---- containers that look like a bullet and a text ----
BulletFirst == {<<BulletGlyph>>, <<BulletGlyph, BulletGlyph>>, <<" ", BulletGlyph, " ">>,
                <<"-">>, <<"a">>}

BulletChildren ==
    {<<TextNode("b", ch), TextNode("body", <<"a", "b">>)>> : ch \in BulletFirst}
    \cup {<<TextNode("b", <<BulletGlyph>>)>>,
          <<TextNode("b", <<BulletGlyph>>), RectNode("body")>>,
          <<RectNode("b"), TextNode("body", <<"a", "b">>)>>,
          <<TextNode("b", <<BulletGlyph>>), TextNode("body", <<"a", "b">>),
            TextNode("more", <<"c", "d">>)>>}

BulletShapes ==
    {[Container("item", type, mode, kids) EXCEPT !.itemSpacing = 8 * Unit] :
        type \in {"FRAME", "COMPONENT", "INSTANCE"},
        mode \in {"HORIZONTAL", "VERTICAL"}, kids \in BulletChildren}
    \cup {Container("item", "GROUP", "NONE", kids) : kids \in BulletChildren}

\* the item selected alone, or the one child of a filled frame
BulletSelections ==
    {<<OnPage(item, page)>> : item \in BulletShapes, page \in BOOLEAN}
    \cup {<<OnPage([Container("list", "FRAME", "VERTICAL", <<Shown(item, v, o)>>)
                     EXCEPT !.fills = <<GrayFill>>], TRUE)>> :
            item \in BulletShapes,
            v \in BOOLEAN, o \in {QZero, QOne}}

Selections ==
    {<< >>} \cup ChainSelections \cup HiddenSelections \cup StackSelections
    \cup RootSelections \cup BulletSelections

(***************************************************************************)
(* The plugin as a state machine: the UI sends a message, the handler      *)
(* converts the current selection and posts the result.                    *)
(***************************************************************************)
ImageExportModes == {"placeholder", "base64"}

Requests ==
    {[type |-> t, imageExportMode |-> m, useLiteralWidth |-> l] :
        t \in {"generate-html-for-selection", "other"},
        m \in ImageExportModes, l \in {"true", "false"}}

\* the state the plugin starts in, the selection being one of sels
Started(sels) ==
    /\ pc = "ui"
    /\ selection \in sels
    /\ request = NoRequest
    /\ posted = NoMessage
    /\ fnArg = << >>
    /\ fnRet = << >>
    /\ inFlight = {}
    /\ log = << >>
    /\ pending = << >>

Init == Started(Selections)

\* figma.ui.onmessage: a message of another type is ignored
OnMessage ==
    \E msg \in Requests :
        IF msg.type = "generate-html-for-selection"
        THEN /\ request' = msg
             /\ posted' = processSelection(selection, msg.imageExportMode,
                                           msg.useLiteralWidth)
             /\ UNCHANGED <<pc, selection, fnArg, fnRet, inFlight, log, pending>>
        ELSE UNCHANGED vars

Next == OnMessage

Spec == Init /\ [][Next]_vars

\* the same plugin started on one family of selections
InitHidden == Started(HiddenSelections)
SpecHidden == InitHidden /\ [][Next]_vars

InitWrap == Started(ChainSelections)
SpecWrap == InitWrap /\ [][Next]_vars

InitStack == Started(StackSelections \cup RootSelections)
SpecStack == InitStack /\ [][Next]_vars

InitBullet == Started(BulletSelections)
SpecBullet == InitBullet /\ [][Next]_vars

\* the selection has been converted by the last request
Converted == request.type = "generate-html-for-selection" /\ posted.type = "generated-html"

(***************************************************************************)
(* Unit specifications: a helper applied to every input of a bounded set.  *)
(***************************************************************************)
\* ---- style strings ----
MaxStyleLen == 5
MaxDecls == 2

StyleAlphabet == {"k", "v", ":", ";", " "}

DeclKeys ==
    {S_padding, S_margin \o <<"-", "l", "e", "f", "t">>, S_border \o <<"-", "t", "o", "p">>, S_border_radius, <<"c", "o", "l", "o", "r">>}

DeclValues == {<<"0">>, <<"0", "p", "x">>, <<"4", "p", "x">>}

Declarations ==
    {k \o <<":">> \o v : k \in DeclKeys, v \in DeclValues}
    \cup {<<" ">> \o k \o <<":", " ">> \o v : k \in {S_padding, <<"c", "o", "l", "o", "r">>}, v \in {<<"0">>, <<"4", "p", "x">>}}

StyleInputs ==
    Strings(StyleAlphabet, MaxStyleLen)
    \cup {Join(l, <<";">>) : l \in Lists(Declarations, MaxDecls)}

InitStyle ==
    /\ pc = "call"
    /\ fnArg \in StyleInputs
    /\ fnRet = << >>
    /\ Idle

CallSanitizeStyles ==
    /\ pc = "call"
    /\ fnRet' = sanitizeStyles(fnArg)
    /\ pc' = "sanitizeStyles"
    /\ UNCHANGED <<fnArg, selection, request, posted, inFlight, log, pending>>

CallCleanZeroValueStyles ==
    /\ pc = "call"
    /\ fnRet' = cleanZeroValueStyles(fnArg)
    /\ pc' = "cleanZeroValueStyles"
    /\ UNCHANGED <<fnArg, selection, request, posted, inFlight, log, pending>>

NextStyle == CallSanitizeStyles \/ CallCleanZeroValueStyles

SpecStyle == InitStyle /\ [][NextStyle]_vars

\* ---- text blocks ----
MaxRuns == 3
MaxDiffRuns == 2

SegmentOf(variant, characters) ==
    LET s == Segment(characters, F_Regular)
    IN  CASE variant = "regular" -> s
          [] variant = "bold" -> Segment(characters, F_Bold)
          [] variant = "italic" -> Segment(characters, F_Italic)
          [] variant = "bolditalic" -> Segment(characters, F_BoldItalic)
          [] variant = "underline" -> [s EXCEPT !.textDecoration = "UNDERLINE"]
          [] variant = "big" -> [s EXCEPT !.fontSize = 20 * Unit]
          [] variant = "nofill" -> [s EXCEPT !.fills = << >>]
          [] variant = "autolh" -> [s EXCEPT !.lineHeight = [unit |-> "AUTO", value |-> 0]]
          [] variant = "red" -> [s EXCEPT !.fills = <<Solid(Red, <<Half>>, TRUE)>>]

Variants ==
    {"regular", "bold", "italic", "bolditalic", "underline", "big", "nofill", "autolh", "red"}

\* the style fields of a segment
StyleOf(seg) == [seg EXCEPT !.characters = << >>]

\* getStyledTextSegments returns maximal runs: neighbours differ in style
MaximalRuns(segments) ==
    \A i \in 1..(Len(segments) - 1) : StyleOf(segments[i]) # StyleOf(segments[i + 1])

RECURSIVE Repeat(_, _)
Repeat(c, n) == IF n = 0 THEN << >> ELSE <<c>> \o Repeat(c, n - 1)

TallyRuns ==
    {SegmentOf(v, Repeat("a", n)) : v \in {"regular", "bold", "italic"}, n \in 1..2}

\* every style with plain characters, two styles with characters to escape,
\* blank characters and a bullet
DiffRuns ==
    {SegmentOf(v, <<"a">>) : v \in Variants}
    \cup {SegmentOf(v, ch) : v \in {"regular", "bold"},
                             ch \in {<<"a", "<", "b">>, <<" ">>, <<"\n">>, <<BulletGlyph>>}}

\* the runs of the example: 10, 3 and 7 characters in styles A, B, A
ExampleRuns ==
    <<SegmentOf("regular", Repeat("a", 10)), SegmentOf("bold", Repeat("b", 3)),
      SegmentOf("regular", Repeat("c", 7))>>

TextInputs ==
    {[Node("text", "TEXT") EXCEPT !.segments = segs] :
        segs \in {l \in Lists(TallyRuns, MaxRuns) \cup Lists(DiffRuns, MaxDiffRuns)
                        \cup {ExampleRuns} : MaximalRuns(l)}}

InitText ==
    /\ pc = "call"
    /\ fnArg \in TextInputs
    /\ fnRet = [baseStyle |-> << >>, innerHtml |-> << >>]
    /\ Idle

CallProcessTextNode ==
    /\ pc = "call"
    /\ fnRet' = processTextNode(fnArg, White)
    /\ pc' = "processTextNode"
    /\ UNCHANGED <<fnArg, selection, request, posted, inFlight, log, pending>>

NextText == CallProcessTextNode

SpecText == InitText /\ [][NextText]_vars

\* ---- colours ----
MaxFills == 2

Gray == Rgb(Half, Half, Half)

Paints ==
    {Solid(c, o, v) : c \in {Red, Gray},
                      o \in {<< >>, <<Half>>, <<Q(98, 100)>>, <<Q(99, 100)>>, <<QOne>>},
                      v \in BOOLEAN}
    \cup {Gradient(Red, a, TRUE) : a \in {<<Half>>, <<QOne>>}}
    \cup {Gradient(Gray, <<QOne>>, FALSE), ImageFill}

ColorInputs ==
    {[fills |-> f, parentBgColor |-> bg] :
        f \in Lists(Paints, MaxFills), bg \in {White, Black, Gray}}

InitColor ==
    /\ pc = "call"
    /\ fnArg \in ColorInputs
    /\ fnRet = [hex |-> << >>, rgb |-> White]
    /\ Idle

CallGetEffectiveBackgroundColorForFills ==
    /\ pc = "call"
    /\ fnRet' = getEffectiveBackgroundColorForFills(fnArg.fills, fnArg.parentBgColor)
    /\ pc' = "getEffectiveBackgroundColorForFills"
    /\ UNCHANGED <<fnArg, selection, request, posted, inFlight, log, pending>>

NextColor == CallGetEffectiveBackgroundColorForFills

SpecColor == InitColor /\ [][NextColor]_vars

\* ---- horizontal containers and narrow containers ----
MaxCells == 3

CellKinds == {"text", "vector", "hidden"}

\* the i-th child of a row, 100 wide
CellNode(kind, i) ==
    LET id == "c" \o ToString(i)
    IN  CASE kind = "text" -> TextNode(id, <<"a", "b">>)
          [] kind = "vector" -> VectorNode(id)
          [] kind = "hidden" -> Shown(VectorNode(id), FALSE, QOne)

RowPaddings == {"none", "top", "sides", "all"}

\* a horizontal frame of the children kinds
RowFrame(kinds, itemSpacing, padding) ==
    LET row == [Container("row", "FRAME", "HORIZONTAL",
                          [i \in 1..Len(kinds) |-> CellNode(kinds[i], i)] \o << >>)
                  EXCEPT !.itemSpacing = itemSpacing, !.fills = <<GrayFill>>,
                         !.width = 300 * Unit]
    IN  CASE padding = "none" -> row
          [] padding = "top" -> [row EXCEPT !.paddingTop = 10 * Unit]
          [] padding = "sides" ->
                [row EXCEPT !.paddingLeft = 8 * Unit, !.paddingRight = 8 * Unit]
          [] padding = "all" ->
                [row EXCEPT !.paddingTop = 10 * Unit, !.paddingBottom = 10 * Unit,
                            !.paddingLeft = 8 * Unit]

RowSelections ==
    {<<OnPage(RowFrame(kinds, s, p), TRUE)>> :
        kinds \in Lists(CellKinds, MaxCells), s \in {0, 8 * Unit}, p \in RowPaddings}

\* a vertical frame 100 wide whose side paddings leave less than nothing
NarrowContents ==
    {<<VectorNode("c1")>>,
     <<At(VectorNode("c1"), 0), At(TextNode("c2", <<"a", "b">>), 20 * Unit)>>,
     <<[Container("c1", "FRAME", "VERTICAL", <<VectorNode("c2")>>)
          EXCEPT !.fills = <<GrayFill>>]>>}

NarrowSelections ==
    {<<OnPage([Container("box", "FRAME", "VERTICAL", content)
                 EXCEPT !.paddingLeft = l * Unit, !.paddingRight = r * Unit], page)>> :
        content \in NarrowContents, l \in {0, 40, 50, 60}, r \in {0, 50, 60},
        page \in BOOLEAN}

InitRow == Started(RowSelections \cup NarrowSelections)
SpecRow == InitRow /\ [][Next]_vars


(***************************************************************************)
(* The conversion step by step: processSelection suspends at every host    *)
(* operation it awaits.  The handler is taken to run one conversion at a   *)
(* time: the UI sends its next message after the answer to the last one.   *)
(***************************************************************************)
DefaultFont == [family |-> <<"I", "n", "t", "e", "r">>, style |-> F_Regular]

\* the fonts of the runs of a text node
FontsOf(node) == {node.segments[i].fontName : i \in 1..Len(node.segments)}

\* node.fontName: << >> stands for figma.mixed
FontNameOf(node) ==
    IF node.segments = << >> THEN <<DefaultFont>>
    ELSE IF Cardinality(FontsOf(node)) = 1 THEN <<node.segments[1].fontName>>
    ELSE << >>

\* findFonts over the selection (lines 48-60): one entry of fontNames for every
\* text node whose font is not mixed, hidden nodes included; the FontName
\* objects of two nodes are two members of the Set
fontNames(nodes) ==
    LET all == NodesOfAll(nodes)
    IN  {[op |-> "loadFontAsync", node |-> k, font |-> FontNameOf(all[k])] :
            k \in {i \in 1..Len(all) : all[i].type = "TEXT" /\ FontNameOf(all[i]) # << >>}}

\* an entry of the log
Event(e, node, fonts) == [e |-> e, node |-> node, fonts |-> fonts]

\* the loads started by Promise.all (line 62), in the order of the array
RECURSIVE StartLoads(_, _)
StartLoads(all, k) ==
    IF k > Len(all) THEN << >>
    ELSE (IF all[k].type = "TEXT" /\ FontNameOf(all[k]) # << >>
          THEN <<Event("loadFontAsync", all[k].id, {FontNameOf(all[k])[1]})>>
          ELSE << >>)
         \o StartLoads(all, k + 1)

\* ---- the calls of the traversal that style text or await the host ----
RECURSIVE NodeCalls(_, _)
RECURSIVE ContainerCalls(_, _, _)
RECURSIVE StackedCalls(_, _, _)
RECURSIVE EachNodeCalls(_, _, _)

Call(call, node) ==
    [call |-> call, node |-> node.id, fonts |-> FontsOf(node), fails |-> node.exportFails]

\* processTextNode styles the runs unless the characters are blank (lines 155-161)
TextCalls(node) ==
    IF Trim(Characters(node.segments)) = << >> \/ node.segments = << >> THEN << >>
    ELSE <<Call("processTextNode", node)>>

\* renderImage awaits node.exportAsync unless the node is smaller than a pixel
\* or the mode is 'placeholder' (lines 544-555)
ImageCalls(node, mode) ==
    IF node.width < Unit \/ node.height < Unit \/ mode = "placeholder" THEN << >>
    ELSE <<Call("exportAsync", node)>>

\* renderNode (lines 291-313)
NodeCalls(node, mode) ==
    IF ~node.visible \/ node.opacity = QZero THEN << >>
    ELSE IF isImageLikeNode(node) THEN ImageCalls(node, mode)
    ELSE IF node.type \in ContainerTypes
    THEN IF isBulletPoint(node)
         THEN TextCalls(node.children[1]) \o TextCalls(node.children[2])
         ELSE ContainerCalls(node, FALSE, mode)
    ELSE IF node.type = "TEXT" THEN TextCalls(node)
    ELSE << >>

\* renderNode for the nodes[i..], one after the other
EachNodeCalls(nodes, i, mode) ==
    IF i > Len(nodes) THEN << >>
    ELSE NodeCalls(nodes[i], mode) \o EachNodeCalls(nodes, i + 1, mode)

\* the loop of getStackedRows (lines 343-398): a text child goes to
\* processTextNode, any other child to renderNode
StackedCalls(children, i, mode) ==
    IF i > Len(children) THEN << >>
    ELSE (IF children[i].type = "TEXT" THEN TextCalls(children[i])
          ELSE NodeCalls(children[i], mode))
         \o StackedCalls(children, i + 1, mode)

\* getStackedRows (lines 315-400)
RowsCalls(parentNode, mode) ==
    LET visibleChildren == SelectSeq(parentNode.children, IsVisible)
        children == IF HasLayout(parentNode) /\ parentNode.layoutMode # "VERTICAL"
                    THEN SortByY(visibleChildren) ELSE visibleChildren
    IN  IF children = << >> THEN << >>
        ELSE IF Len(children) = 1 /\ PaddingLeftOf(parentNode) = 0
                /\ PaddingRightOf(parentNode) = 0
                /\ Round(children[1].y - PaddingTopOf(parentNode)) <= 2
        THEN NodeCalls(children[1], mode)
        ELSE StackedCalls(children, 1, mode)

\* renderContainer (lines 408-498)
ContainerCalls(node, isRoot, mode) ==
    LET children == SelectSeq(node.children, IsVisible)
        bare == /\ getEffectiveBackgroundColor(node, White).hex = << >>
                /\ getBorderStyles(node, << >>) = << >>
    IN  IF children = << >> /\ bare THEN << >>
        ELSE IF LayoutModeOf(node) # "HORIZONTAL"
        THEN IF Len(children) = 1 /\ bare
                /\ PaddingLeftOf(node) = 0 /\ PaddingRightOf(node) = 0
                /\ children[1].y - Round(PaddingTopOf(node)) * Unit <= 2 * Unit
                /\ Round(PaddingTopOf(node)) = 0 /\ Round(PaddingBottomOf(node)) = 0
                /\ ~isRoot
             THEN NodeCalls(children[1], mode)
             ELSE RowsCalls(node, mode)
        ELSE EachNodeCalls(children, 1, mode)

\* parse (lines 567-602)
ParseCalls(nodes, mode) ==
    IF nodes = << >> THEN << >>
    ELSE IF Len(nodes) = 1
    THEN IF nodes[1].type \in {"FRAME", "COMPONENT", "INSTANCE"}
         THEN ContainerCalls(nodes[1], nodes[1].parentIsPage, mode)
         ELSE NodeCalls(nodes[1], mode)
    ELSE EachNodeCalls(SortByY(nodes), 1, mode)

\* the calls parse makes for the request in progress
Calls == ParseCalls(selection, request.imageExportMode)

\* ---- the selections and the requests of the stepwise conversion ----
MaxItems == 2

MixedText(id) ==
    [Node(id, "TEXT") EXCEPT
        !.segments = <<Segment(<<"a", "b">>, F_Regular), Segment(<<"c", "d">>, F_Bold)>>]

ItemKinds == {"text", "mixed", "vector", "failing"}

Item(kind, i) ==
    LET id == "n" \o ToString(i)
    IN  At(CASE kind = "text" -> TextNode(id, <<"a", "b">>)
             [] kind = "mixed" -> MixedText(id)
             [] kind = "vector" -> VectorNode(id)
             [] kind = "failing" -> [VectorNode(id) EXCEPT !.exportFails = TRUE],
           (i - 1) * 30 * Unit)

Items(kinds) == [i \in 1..Len(kinds) |-> Item(kinds[i], i)] \o << >>

AsyncSelections ==
    {<< >>,
     <<Shown(Item("text", 1), FALSE, QOne)>>,
     <<OnPage([Container("box", "FRAME", "VERTICAL",
                         <<Item("vector", 1), Shown(Item("text", 2), FALSE, QOne)>>)
                 EXCEPT !.fills = <<GrayFill>>], TRUE)>>,
     <<OnPage(Container("box", "FRAME", "VERTICAL",
                        Items(<<"text", "text", "vector", "failing", "vector">>)), TRUE)>>}
    \cup {Items(kinds) : kinds \in Lists(ItemKinds, MaxItems)}
    \cup {<<OnPage([Container("box", "FRAME", mode, Items(kinds))
                      EXCEPT !.fills = <<GrayFill>>, !.width = 300 * Unit], TRUE)>> :
            kinds \in Lists(ItemKinds, MaxItems), mode \in {"VERTICAL", "HORIZONTAL"}}

\* what the UI can send, and values it is not meant to send: an export mode of
\* another name or none, a width mode that is not a boolean or none
AsyncRequests ==
    {[type |-> "other", imageExportMode |-> "placeholder", useLiteralWidth |-> "false"]}
    \cup {[type |-> "generate-html-for-selection", imageExportMode |-> o[1],
           useLiteralWidth |-> o[2]] :
            o \in {<<"placeholder", "false">>, <<"base64", "true">>, <<"base64", "false">>,
                   <<"named-asset", "false">>, <<"undefined", "undefined">>,
                   <<"placeholder", "auto">>}}

InitAsync == Started(AsyncSelections)

\* figma.ui.onmessage and processSelection up to its first await (lines 615-623,
\* 637-640)
ReceiveMessage ==
    /\ pc = "ui"
    /\ \E msg \in AsyncRequests :
        IF msg.type # "generate-html-for-selection" THEN UNCHANGED vars
        ELSE IF selection = << >>
        THEN /\ request' = msg
             /\ posted' = processSelection(selection, msg.imageExportMode,
                                           msg.useLiteralWidth)
             /\ log' = << >>
             /\ UNCHANGED <<pc, selection, fnArg, fnRet, inFlight, pending>>
        ELSE /\ request' = msg
             /\ inFlight' = fontNames(selection)
             /\ log' = StartLoads(NodesOfAll(selection), 1)
             /\ pc' = "collectAndLoadAllFonts"
             /\ UNCHANGED <<selection, posted, fnArg, fnRet, pending>>

\* a font load completes
LoadFontAsyncDone ==
    /\ pc = "collectAndLoadAllFonts"
    /\ \E o \in inFlight :
        /\ inFlight' = inFlight \ {o}
        /\ log' = Append(log, Event("loaded", NodesOfAll(selection)[o.node].id, {o.font[1]}))
    /\ UNCHANGED <<pc, selection, request, posted, fnArg, fnRet, pending>>

\* Promise.all has settled (or there was no font): parser.parse starts (line 626)
ParseStart ==
    /\ pc = "collectAndLoadAllFonts"
    /\ inFlight = {}
    /\ pc' = "parse"
    /\ pending' = Calls
    /\ UNCHANGED <<selection, request, posted, fnArg, fnRet, inFlight, log>>

\* the traversal reaches a text: its runs are styled
ProcessTextNodeCall ==
    /\ pc = "parse"
    /\ pending # << >>
    /\ Head(pending).call = "processTextNode"
    /\ log' = Append(log, Event("processTextNode", Head(pending).node, Head(pending).fonts))
    /\ pending' = Tail(pending)
    /\ UNCHANGED <<pc, selection, request, posted, fnArg, fnRet, inFlight>>

\* the export started and not awaited: the traversal goes on at once
ExportAsyncCallNotAwaited ==
    /\ pc = "parse"
    /\ pending # << >>
    /\ Head(pending).call = "exportAsync"
    /\ inFlight' = inFlight \cup {[op |-> "exportAsync", node |-> Len(log), font |-> << >>]}
    /\ log' = Append(log, Event("exportAsync", Head(pending).node, {}))
    /\ pending' = Tail(pending)
    /\ UNCHANGED <<pc, selection, request, posted, fnArg, fnRet>>

\* the traversal reaches an image to export: await node.exportAsync (line 555)
ExportAsyncCall ==
    /\ pc = "parse"
    /\ pending # << >>
    /\ Head(pending).call = "exportAsync"
    /\ inFlight' = inFlight \cup {[op |-> "exportAsync", node |-> Len(log), font |-> << >>]}
    /\ log' = Append(log, Event("exportAsync", Head(pending).node, {}))
    /\ pc' = "exportAsync"
    /\ UNCHANGED <<selection, request, posted, fnArg, fnRet, pending>>

\* the export settles: it returns the bytes or throws, and renderImage resumes
ExportAsyncDone ==
    /\ pc = "exportAsync"
    /\ inFlight' = {}
    /\ log' = Append(log, Event(IF Head(pending).fails THEN "export failed" ELSE "exported",
                                Head(pending).node, {}))
    /\ pc' = "parse"
    /\ pending' = Tail(pending)
    /\ UNCHANGED <<selection, request, posted, fnArg, fnRet>>

\* parse has returned: the fragment is posted (lines 628-634)
PostMessage ==
    /\ pc = "parse"
    /\ pending = << >>
    /\ posted' = processSelection(selection, request.imageExportMode,
                                  request.useLiteralWidth)
    /\ pc' = "ui"
    /\ UNCHANGED <<selection, request, fnArg, fnRet, inFlight, log, pending>>

NextAsync ==
    \/ ReceiveMessage
    \/ LoadFontAsyncDone
    \/ ParseStart
    \/ ProcessTextNodeCall
    \/ ExportAsyncCall
    \/ ExportAsyncDone
    \/ PostMessage

SpecAsync == InitAsync /\ [][NextAsync]_vars


(***************************************************************************)
(* The claims about the helpers.                                           *)
(***************************************************************************)
\* the style maps of the runs of a text node, in document order
RunStyles(node) ==
    [i \in 1..Len(node.segments) |-> getSegmentStyleObject(node.segments[i], White)]

\* the characters of the runs 1..i of the node whose style map is s
RECURSIVE TotalUpTo(_, _, _)
TotalUpTo(node, s, i) ==
    IF i = 0 THEN 0
    ELSE TotalUpTo(node, s, i - 1)
         + (IF RunStyles(node)[i] = s THEN Len(node.segments[i].characters) ELSE 0)

TotalOf(node, s) == TotalUpTo(node, s, Len(node.segments))

\* the runs whose style map has the greatest total
Dominant(node) ==
    {i \in 1..Len(node.segments) :
        \A j \in 1..Len(node.segments) :
            TotalOf(node, RunStyles(node)[j]) <= TotalOf(node, RunStyles(node)[i])}

FirstRunOf(node, s) ==
    CHOOSE i \in 1..Len(node.segments) :
        RunStyles(node)[i] = s /\ \A j \in 1..(i - 1) : RunStyles(node)[j] # s

LastRunOf(node, s) ==
    CHOOSE i \in 1..Len(node.segments) :
        RunStyles(node)[i] = s /\ \A j \in (i + 1)..Len(node.segments) : RunStyles(node)[j] # s

NonBlankText(node) == Trim(Characters(node.segments)) # << >>

Processed == pc = "processTextNode" /\ NonBlankText(fnArg)

\* C4 as stated: the base style is the style map with the greatest total of
\* characters, and among several with that total the one whose first run
\* comes first in the document.
C4_BaseStyleFirstOccurrence ==
    Processed =>
        \E i \in Dominant(fnArg) :
            /\ fnRet.baseStyle = RunStyles(fnArg)[i]
            /\ \A j \in Dominant(fnArg) :
                  FirstRunOf(fnArg, RunStyles(fnArg)[i]) <= FirstRunOf(fnArg, RunStyles(fnArg)[j])

\* C4 amended: the base style is the style map with the greatest total of
\* characters, and among several with that total the one whose running
\* total reaches it first, that is whose last run comes first in the document.
C4_BaseStyleFirstToReach ==
    Processed =>
        \E i \in Dominant(fnArg) :
            /\ fnRet.baseStyle = RunStyles(fnArg)[i]
            /\ \A j \in Dominant(fnArg) :
                  LastRunOf(fnArg, RunStyles(fnArg)[i]) <= LastRunOf(fnArg, RunStyles(fnArg)[j])

\* C4 witness: two style maps share the greatest total, and the one returned
\* is not the one that occurs first
C4_TieWitness ==
    /\ Processed
    /\ \E i, j \in Dominant(fnArg) : RunStyles(fnArg)[i] # RunStyles(fnArg)[j]
    /\ fnRet.baseStyle # RunStyles(fnArg)[CHOOSE i \in Dominant(fnArg) :
                                            \A j \in Dominant(fnArg) : i <= j]

\* the markup C5 prescribes for a run with style map s and the given content
C5_RunMarkup(baseStyle, s, characters) ==
    LET diff == diffStyleObjects(baseStyle, s)
        escaped == SanitizeChars(characters)
        mapped == ObjGet(bulletCharacterMap, Trim(escaped))
        content == Tok("text", "text", "processTextNode",
                       [chars |-> IF mapped # << >> THEN mapped[1] ELSE escaped])
        Wrapped(tag, style) ==
            <<Tok("<" \o tag, "text", "processTextNode", [style |-> style]), content,
              Tok("</" \o tag, "text", "processTextNode", NoAttrs)>>
    IN  IF diff = << >> THEN <<content>>
        ELSE IF diff = <<<<K_font_weight, V_700>>>> THEN Wrapped("strong", << >>)
        ELSE IF diff = <<<<K_font_style, V_italic>>>> THEN Wrapped("i", << >>)
        ELSE Wrapped("span", styleObjectToCssString(diff))

\* C5 as stated: a run that differs from the base style only by font-weight 700
\* or only by font-style italic is the bare strong or i tag, with no style
\* attribute; a run with no difference is bare escaped text; any other run is a
\* span carrying the differing properties.
C5_SemanticTagAlone ==
    Processed =>
        fnRet.innerHtml =
            Flatten([i \in 1..Len(fnArg.segments) |->
                       C5_RunMarkup(fnRet.baseStyle, RunStyles(fnArg)[i],
                                    fnArg.segments[i].characters)])

\* C6 as stated: sanitizeStyles(sanitizeStyles(s)) = sanitizeStyles(s)
C6_SanitizeIdempotent ==
    pc = "sanitizeStyles" => sanitizeStyles(fnRet) = fnRet

\* the declarations C7 keeps: all but those of the padding, margin, border and
\* border-radius families whose value is zero
C7_Keeps(rule) ==
    LET colon == CHOOSE i \in 1..(Len(rule) + 1) :
                    (i = Len(rule) + 1 \/ rule[i] = ":")
                    /\ \A j \in 1..(i - 1) : rule[j] # ":"
        key == Trim(SubSeq(rule, 1, colon - 1))
        value == Trim(SubSeq(rule, colon + 1, Len(rule)))
        family == StartsWith(key, S_padding) \/ StartsWith(key, S_margin)
                  \/ StartsWith(key, S_border) \/ Includes(key, S_border_radius)
    IN  ~(family /\ IsZeroValue(value))

\* C7 as stated: cleanZeroValueStyles removes exactly the zero-valued
\* declarations of the padding, margin, border and border-radius families and
\* keeps every other declaration unchanged and in order.
C7_RemovesExactlyZeroValues ==
    pc = "cleanZeroValueStyles" =>
        fnRet = Join(SelectSeq(SelectSeq(Split(fnArg, ";"), NonBlank), C7_Keeps), <<";">>)

\* the two hexadecimal digits of a channel: its value times 255, rounded
C9_Channel(c) ==
    LET v == QRound(QMul(c, Q(255, 1))) IN <<Digit(v \div 16), Digit(v % 16)>>

C9_Hex(color) == <<"#">> \o C9_Channel(color.r) \o C9_Channel(color.g) \o C9_Channel(color.b)

\* fg * a + bg * (1 - a)
C9_Over(fg, a, bg) == QAdd(QMul(fg, a), QMul(bg, QSub(QOne, a)))

\* C9: the first visible fill decides.  With an opacity of at least 0.99 (of a
\* solid fill; of the first stop of a gradient) its colour is returned as it
\* is; with a lower one every channel is fg*a + bg*(1-a) over the inherited
\* background; the hex code is the channels times 255, rounded, in two digits
\* (red at opacity 0.5 over white is #ff8080).  Without a visible fill there
\* is no colour and the inherited background is handed on.
C9_ColorResolution ==
    pc = "getEffectiveBackgroundColorForFills" =>
        LET fills == fnArg.fills
            bg == fnArg.parentBgColor
            shown == {i \in 1..Len(fills) : fills[i].visible}
            f == fills[CHOOSE i \in shown : \A j \in shown : i <= j]
            solid == f.type = "SOLID"
            c == IF solid THEN f.color ELSE f.gradientStops[1].color
            a == IF solid THEN OrElse(f.opacity, QOne) ELSE OrElse(c.a, QOne)
            over == Rgb(C9_Over(c.r, a, bg.r), C9_Over(c.g, a, bg.g), C9_Over(c.b, a, bg.b))
        IN  /\ shown = {} => fnRet.hex = << >> /\ fnRet.rgb = bg
            /\ shown # {} /\ f.type # "IMAGE" =>
                  IF a.n * 100 >= 99 * a.d
                  THEN fnRet.rgb = Rgb(c.r, c.g, c.b) /\ fnRet.hex = C9_Hex(c)
                  ELSE fnRet.rgb = over /\ fnRet.hex = C9_Hex(over)
            /\ fnArg = [fills |-> <<Solid(Red, <<Half>>, TRUE)>>, parentBgColor |-> White]
                  => fnRet.hex = <<"#", "f", "f", "8", "0", "8", "0">>

\* C9 witness: a translucent fill behind a hidden one was blended
C9_BlendWitness ==
    /\ pc = "getEffectiveBackgroundColorForFills"
    /\ Len(fnArg.fills) = 2
    /\ ~fnArg.fills[1].visible
    /\ fnArg.fills[2] = Solid(Red, <<Half>>, TRUE)
    /\ fnArg.parentBgColor = White
    /\ fnRet.hex = <<"#", "f", "f", "8", "0", "8", "0">>

(***************************************************************************)
(* The claims about the layout.                                            *)
(***************************************************************************)
\* the nodes of the selection, every root followed by its descendants
SelectedNodes == NodesOfAll(selection)

ContainersOf(nodes) == {i \in 1..Len(nodes) : nodes[i].type \in ContainerTypes}

\* the positions in the posted fragment of the markup made for the node id
TokensOf(id) == {k \in 1..Len(posted.html) : posted.html[k].src = id}

\* the tables the node id contributes
TablesOf(id) == {k \in TokensOf(id) : posted.html[k].t = "<table"}

\* the table, row and cell openings the node id contributes
StructureOf(id) == {k \in TokensOf(id) : posted.html[k].t \in {"<table", "<tr", "<td"}}

TableCount == Cardinality({k \in 1..Len(posted.html) : posted.html[k].t = "<table"})

Hidden(n) == ~n.visible \/ n.opacity = QZero

HasBackground(n) == getEffectiveBackgroundColor(n, White).hex # << >>
HasBorder(n) == getBorderStyles(n, << >>) # << >>
HasVerticalPadding(n) == Round(PaddingTopOf(n)) # 0 \/ Round(PaddingBottomOf(n)) # 0
HasSidePadding(n) == PaddingLeftOf(n) # 0 \/ PaddingRightOf(n) # 0
VisibleChildren(n) == SelectSeq(n.children, IsVisible)

\* the one node selected
SelectedAlone(n) == Len(selection) = 1 /\ selection[1].id = n.id

\* the one node selected, a frame, component or instance placed on the page
PageRoot(n) ==
    SelectedAlone(n) /\ n.type \in {"FRAME", "COMPONENT", "INSTANCE"} /\ n.parentIsPage

\* C1 as stated: the fragment holds no markup made for a node that is hidden
\* or fully transparent, whether it is a selected root, the one child of an
\* unwrapped container, a text of a text group or a child of a horizontal
\* container.
C1_NoMarkupForHiddenNodes ==
    Converted =>
        \A i \in 1..Len(SelectedNodes) :
            Hidden(SelectedNodes[i]) => TokensOf(SelectedNodes[i].id) = {}

\* C2 as stated: a container contributes a table of its own only if it has a
\* resolved background, a border, a top or bottom padding, or is the root of
\* the traversal.
C2_TableOnlyWithEffectOrRoot ==
    Converted =>
        \A i \in ContainersOf(SelectedNodes) :
            LET n == SelectedNodes[i]
            IN  TablesOf(n.id) # {} =>
                    \/ HasBackground(n)
                    \/ HasBorder(n)
                    \/ HasVerticalPadding(n)
                    \/ SelectedAlone(n)

\* C2 amended: a container contributes a table, row or cell of its own only
\* if it has a resolved background, a border, a padding on any side, the
\* horizontal mode, no or several visible children, a child more than 2 units
\* below its top, or is the one selected node and placed on the page; any
\* other container contributes none at any depth, its child's markup standing
\* in its place (a container of image-like children only is one image).
C2_TableOnlyWhenNotTrivial ==
    Converted =>
        \A i \in ContainersOf(SelectedNodes) :
            LET n == SelectedNodes[i]
            IN  StructureOf(n.id) # {} =>
                    \/ HasBackground(n)
                    \/ HasBorder(n)
                    \/ HasVerticalPadding(n)
                    \/ HasSidePadding(n)
                    \/ LayoutModeOf(n) = "HORIZONTAL"
                    \/ Len(VisibleChildren(n)) # 1
                    \/ VisibleChildren(n)[1].y > 2 * Unit
                    \/ PageRoot(n)

\* a container that only wraps its one visible child
TrivialShape(n) ==
    /\ n.type \in ContainerTypes
    /\ Len(VisibleChildren(n)) = 1
    /\ ~HasBackground(n) /\ ~HasBorder(n)
    /\ ~HasVerticalPadding(n) /\ ~HasSidePadding(n)
    /\ LayoutModeOf(n) # "HORIZONTAL"
    /\ VisibleChildren(n)[1].y <= 2 * Unit

\* C2 witness: below a container that has a table of its own, a container at
\* depth two or more contributes nothing and its leaf is in the fragment
C2_SplicedWitness ==
    /\ Converted
    /\ Len(selection) = 1
    /\ TablesOf(selection[1].id) # {}
    /\ \E i \in ContainersOf(SelectedNodes) :
          /\ i > 1
          /\ TrivialShape(SelectedNodes[i])
          /\ TokensOf(SelectedNodes[i].id) = {}
    /\ TablesOf("leaf") # {}

\* the number of containers of trivial shape nested around a shown text that
\* is not blank, -1 if the node is no such chain
RECURSIVE ChainDepth(_)
ChainDepth(n) ==
    IF n.type = "TEXT"
    THEN IF ~Hidden(n) /\ Trim(Characters(n.segments)) # << >> THEN 0 ELSE -1
    ELSE IF n.type \in ContainerTypes /\ ~Hidden(n)
    THEN IF Len(VisibleChildren(n)) = 1 /\ ChainDepth(VisibleChildren(n)[1]) >= 0
         THEN 1 + ChainDepth(VisibleChildren(n)[1]) ELSE -1
    ELSE -1

\* the same with the shape C3 states: one visible child, no side padding, the
\* child at most 2 units below the top padding
C3_StatedShape(n) ==
    /\ n.type \in ContainerTypes
    /\ Len(VisibleChildren(n)) = 1
    /\ ~HasSidePadding(n)
    /\ VisibleChildren(n)[1].y - PaddingTopOf(n) <= 2 * Unit

RECURSIVE C3_AllStated(_)
C3_AllStated(n) ==
    n.type \in ContainerTypes => C3_StatedShape(n) /\ C3_AllStated(VisibleChildren(n)[1])

RECURSIVE AllTrivial(_)
AllTrivial(n) ==
    n.type \in ContainerTypes => TrivialShape(n) /\ AllTrivial(VisibleChildren(n)[1])

IsFiller(tok) ==
    tok.t = "<td" /\ tok.fn \in {"getStackedRows", "parse"} /\ "height" \in DOMAIN tok.a

FillerCells(id) ==
    LET Mine(tok) == tok.src = id /\ IsFiller(tok) IN SelectSeq(posted.html, Mine)

\* the gaps that exceed 2 units, rounded, before the nodes[i..], the bottom of
\* the node before being prevBottom
RECURSIVE C8_Gaps(_, _, _)
C8_Gaps(nodes, i, prevBottom) ==
    IF i > Len(nodes) THEN << >>
    ELSE (IF Round(nodes[i].y - prevBottom) > 2
          THEN <<Round(nodes[i].y - prevBottom)>> ELSE << >>)
         \o C8_Gaps(nodes, i + 1, nodes[i].y + nodes[i].height)

\* the visible children in the order they are stacked in
C8_Stacked(n) ==
    IF HasLayout(n) /\ n.layoutMode # "VERTICAL"
    THEN SortByY(VisibleChildren(n)) ELSE VisibleChildren(n)

\* the fillers C8 prescribes for the container alone in the selection, or for
\* the selected roots
C8_Expected ==
    IF Len(selection) = 1
    THEN C8_Gaps(C8_Stacked(selection[1]), 1, PaddingTopOf(selection[1]))
    ELSE LET roots == SortByY(SelectSeq(selection, IsVisible))
         IN  IF roots = << >> THEN << >>
             ELSE C8_Gaps(roots, 2, roots[1].y + roots[1].height)

\* C8 as stated, the gap being rounded before it is compared: between two
\* consecutive visible siblings, and between the top padding and the first
\* child, there is a filler row exactly when the gap exceeds 2 units, and its
\* height attribute, font-size and line-height are the rounded gap.
C8_FillerPerVisibleGap ==
    Converted /\ selection # << >> =>
        LET cells == FillerCells(IF Len(selection) = 1 THEN selection[1].id
                                 ELSE "selection")
        IN  /\ Len(cells) = Len(C8_Expected)
            /\ \A k \in 1..Len(cells) :
                  /\ cells[k].a.height = C8_Expected[k]
                  /\ cells[k].a.style = FillerStyle(C8_Expected[k])

\* what C10 takes for a bullet and its text
C10_BulletShape(n) ==
    /\ LayoutModeOf(n) = "HORIZONTAL"
    /\ Len(n.children) = 2
    /\ n.children[1].type = "TEXT" /\ n.children[2].type = "TEXT"
    /\ Len(Trim(Characters(n.children[1].segments))) = 1
    /\ ObjGet(bulletCharacterMap, Trim(Characters(n.children[1].segments))) # << >>

RenderedAsBullet(n) ==
    \E k \in TokensOf(n.id) : posted.html[k].fn = "renderBulletPoint"

\* C10 as stated: a shown container of any kind, frame, group, component or
\* instance, is rendered as a bullet and its text if and only if it is in
\* horizontal mode and has exactly two children, both texts, the first one
\* trimmed being one glyph of the bullet table.
C10_BulletIffShape ==
    Converted =>
        \A i \in ContainersOf(SelectedNodes) :
            ~Hidden(SelectedNodes[i]) =>
                (RenderedAsBullet(SelectedNodes[i]) <=> C10_BulletShape(SelectedNodes[i]))

(***************************************************************************)
(* The claims about rows, widths and run styles.                           *)
(***************************************************************************)
\* the markup posted
Html == posted.html

HasAttr(tok, name) == name \in DOMAIN tok.a

\* the cells a horizontal container wrote in its content row
ContentCells(id) ==
    {k \in TokensOf(id) : Html[k].t = "<td" /\ Html[k].fn = "renderContainer"
                          /\ ~HasAttr(Html[k], "colspan")}

\* the cells of its top and bottom padding rows
PaddingCells(id) ==
    {k \in TokensOf(id) : Html[k].t = "<td" /\ Html[k].fn = "renderContainer"
                          /\ HasAttr(Html[k], "colspan")}

\* C16 as stated: the colspan on the top and bottom padding rows of a
\* horizontal container equals the number of cells its content row holds
\* (children, the spacers written between them, the side padding cells),
\* whatever the number of visible children and the item spacing, 0 included.
C16_ColspanCountsCells ==
    Converted =>
        \A i \in ContainersOf(SelectedNodes) :
            LET n == SelectedNodes[i]
            IN  LayoutModeOf(n) = "HORIZONTAL" =>
                    \A k \in PaddingCells(n.id) :
                        Html[k].a.colspan = Cardinality(ContentCells(n.id))

\* the images and the tables with a literal width
Widths ==
    {Html[k].a.width : k \in {j \in 1..Len(Html) :
        /\ Html[j].t \in {"<img", "<table"}
        /\ HasAttr(Html[j], "width")}}

\* C17 as stated: the available width handed down is positive, so no image
\* and no table has a display width of zero or less, also when the left and
\* right padding of a container take all of its available width.
C17_WidthsPositive ==
    Converted => \A w \in Widths : w.n > 0

\* the tables open at position k of the fragment
Depth(k) ==
    Cardinality({j \in 1..(k - 1) : Html[j].t = "<table"})
    - Cardinality({j \in 1..(k - 1) : Html[j].t = "</table"})

\* C18 as stated: whether one node or several are selected, every row of the
\* fragment lies inside a table; no row is a top-level element.
C18_RowsInsideTables ==
    Converted => \A k \in 1..Len(Html) : Html[k].t = "<tr" => Depth(k) > 0

\* the declarations of an inline style, as pairs of property and value
C19_Declarations(css) ==
    LET rules == SelectSeq(Split(css, ";"), NonBlank)
        Colon(rule) == CHOOSE i \in 1..Len(rule) :
                          rule[i] = ":" /\ \A j \in 1..(i - 1) : rule[j] # ":"
    IN  {<<SubSeq(rules[r], 1, Colon(rules[r]) - 1),
           SubSeq(rules[r], Colon(rules[r]) + 1, Len(rules[r]))>> : r \in 1..Len(rules)}

\* the position in the inner markup of the text of the i-th run
C19_TextOf(i) ==
    CHOOSE k \in 1..Len(fnRet.innerHtml) :
        /\ fnRet.innerHtml[k].t = "text"
        /\ Cardinality({j \in 1..k : fnRet.innerHtml[j].t = "text"}) = i

\* what the markup around the text at position k sets for it: the style
\* attribute of its tag and what the tag itself means
C19_Overrides(k) ==
    IF k > 1 /\ fnRet.innerHtml[k - 1].t \in {"<span", "<strong", "<i"}
    THEN C19_Declarations(fnRet.innerHtml[k - 1].a.style)
         \cup (CASE fnRet.innerHtml[k - 1].t = "<strong" -> {<<K_font_weight, V_700>>}
                 [] fnRet.innerHtml[k - 1].t = "<i" -> {<<K_font_style, V_italic>>}
                 [] OTHER -> {})
    ELSE {}

C19_Pairs(styleObj) == {styleObj[i] : i \in 1..Len(styleObj)}

\* the style in force on a run: the base style of the cell with the
\* properties the run's markup sets put over it
C19_InForce(baseStyle, overrides) ==
    {p \in C19_Pairs(baseStyle) : \A q \in overrides : q[1] # p[1]} \cup overrides

\* C19 as stated: for every run of a text block, the overrides written on the
\* run, applied over the base style of the cell, give exactly the run's own
\* style map; a run written as bare text has the base style, and no property
\* the base style has and the run lacks stays in force on the run.
C19_OverridesReproduceRunStyle ==
    Processed =>
        \A i \in 1..Len(fnArg.segments) :
            C19_InForce(fnRet.baseStyle, C19_Overrides(C19_TextOf(i)))
                = C19_Pairs(RunStyles(fnArg)[i])


(***************************************************************************)
(* The claims about images, fonts and the order of the host operations.    *)
(***************************************************************************)
\* the last request has been answered
Answered == pc = "ui" /\ Converted

FromRenderImage(tok) == tok.fn = "renderImage"

\* the markup renderImage wrote, in the order of the fragment
ImageMarkup == SelectSeq(Html, FromRenderImage)

IsExportCall(c) == c.call = "exportAsync"

\* the image-like nodes the traversal hands to the exporter, in order
ExportCalls == SelectSeq(Calls, IsExportCall)

C11_Name(n) == "images/image-" \o ToString(n) \o ".png"

\* C11 as stated: in named-asset mode the N-th image-like node reached by the
\* traversal is written as an img whose src is images/image-N.png, and the
\* asset list posted with the fragment has an entry of that name at position
\* N, in the order of emission, starting empty at every conversion.
C11_NamedAssets ==
    (Answered /\ request.imageExportMode = "named-asset") =>
        /\ Len(ImageMarkup) = Len(ExportCalls)
        /\ Len(posted.assets) = Len(ExportCalls)
        /\ \A n \in 1..Len(ExportCalls) :
            /\ ImageMarkup[n].t = "<img"
            /\ ImageMarkup[n].src = ExportCalls[n].node
            /\ ImageMarkup[n].a.src = C11_Name(n)
            /\ posted.assets[n].name = C11_Name(n)

\* the selection with every export succeeding
RECURSIVE C12_Heal(_)
C12_Heal(node) ==
    [node EXCEPT !.exportFails = FALSE,
                 !.children = [i \in 1..Len(node.children) |-> C12_Heal(node.children[i])]
                              \o << >>]

C12_Healed == [i \in 1..Len(selection) |-> C12_Heal(selection[i])] \o << >>

\* the nodes whose export failed in this conversion
C12_Failed == {log[i].node : i \in {j \in 1..Len(log) : log[j].e = "export failed"}}

\* html is ok, the fragment of the healed selection, but for an error marker
\* naming the node in the place of the image of every node whose export failed
C12_SameButMarkers(html, ok) ==
    /\ Len(html) = Len(ok)
    /\ \A k \in 1..Len(html) :
        IF html[k].src \in C12_Failed /\ html[k].fn = "renderImage"
        THEN /\ html[k].t = "<p"
             /\ \E i \in 1..Len(SelectedNodes) :
                    /\ SelectedNodes[i].id = html[k].src
                    /\ html[k].a.error = SelectedNodes[i].name
             /\ ok[k].t = "<img"
             /\ ok[k].src = html[k].src
        ELSE html[k] = ok[k]
    /\ \A id \in C12_Failed : \E k \in 1..Len(html) : html[k].src = id /\ html[k].t = "<p"

\* C12: when the export of an image fails in the exporting mode, the
\* conversion is completed and posts a fragment that has an error marker
\* naming the node where its image would be; the markup of every other node
\* is what it is when that export succeeds.
C12_ErrorMarkerInPlace ==
    (Answered /\ request.imageExportMode = "base64") =>
        C12_SameButMarkers(Html, parse(C12_Healed,
                                       [imageExportMode |-> request.imageExportMode,
                                        useLiteralWidth |-> request.useLiteralWidth]))

\* a conversion completed in which one export failed and another node has markup
C12_FailedExportWitness ==
    /\ Answered
    /\ request.imageExportMode = "base64"
    /\ C12_Failed # {}
    /\ \E k \in 1..Len(Html) : Html[k].t \in {"<img", "text"}

C13_WidthModes == {"true", "false"}

\* C13 as stated: an export mode or a width mode that is absent or not a
\* recognized value is treated as placeholder images and fluid width: the
\* fragment is the one of those defaults and no export is started.
C13_FallsBackToDefaults ==
    (/\ Answered
     /\ selection # << >>
     /\ \/ request.imageExportMode \notin ImageExportModes
        \/ request.useLiteralWidth \notin C13_WidthModes) =>
        /\ Html = parse(selection,
                        [imageExportMode |->
                            IF request.imageExportMode \in ImageExportModes
                            THEN request.imageExportMode ELSE "placeholder",
                         useLiteralWidth |->
                            IF request.useLiteralWidth \in C13_WidthModes
                            THEN request.useLiteralWidth ELSE "false"])
        /\ request.imageExportMode \notin ImageExportModes =>
              \A i \in 1..Len(log) : log[i].e # "exportAsync"

\* C14 as stated: when a run is styled, the load of its font has been
\* started and has completed, for nodes of one font and for nodes whose
\* runs have several fonts.
C14_FontLoadedBeforeStyling ==
    \A i \in 1..Len(log) :
        log[i].e = "processTextNode" =>
            \A f \in log[i].fonts :
                \E j \in 1..(i - 1) :
                    /\ log[j].e = "loaded"
                    /\ f \in log[j].fonts
                    /\ \E s \in 1..(j - 1) : log[s].e = "loadFontAsync" /\ f \in log[s].fonts

C15_ExportsInFlight == {o \in inFlight : o.op = "exportAsync"}

IsExportStart(ev) == ev.e = "exportAsync"

\* the exports are started in the order of the markup of their nodes
C15_ExportOrder ==
    (Answered /\ request.imageExportMode = "base64") =>
        /\ Len(SelectSeq(log, IsExportStart)) = Len(ImageMarkup)
        /\ \A n \in 1..Len(ImageMarkup) :
              SelectSeq(log, IsExportStart)[n].node = ImageMarkup[n].src

\* C15 as stated: no two awaited host operations, font loads or exports, are
\* in flight at the same time, and the exports are started in the order of
\* the markup.
C15_OneOperationInFlight ==
    /\ Cardinality(inFlight) <= 1
    /\ C15_ExportOrder

\* C15 amended: the font loads of a conversion are started together and
\* awaited together; after them at most one export is in flight at a time,
\* never together with a font load, and the exports are started in the
\* order of the markup.
C15_ExportsOneAtATime ==
    /\ Cardinality(C15_ExportsInFlight) <= 1
    /\ C15_ExportsInFlight # {} => inFlight = C15_ExportsInFlight
    /\ \A i \in 1..Len(log) : \A j \in (i + 1)..Len(log) :
          ~(log[i].e \in {"loaded", "exportAsync"} /\ log[j].e = "loadFontAsync")
    /\ \A i \in 1..Len(log) : \A j \in (i + 1)..Len(log) :
          (log[i].e = "exportAsync" /\ log[j].e = "exportAsync") =>
              \E k \in (i + 1)..(j - 1) : log[k].e \in {"exported", "export failed"}
    /\ C15_ExportOrder

\* a second export in flight, after the fonts of two texts were loaded together
C15_SecondExportWitness ==
    /\ pc = "exportAsync"
    /\ C15_ExportsInFlight # {}
    /\ \E i \in 1..Len(log) : log[i].e = "exported"
    /\ \E i \in 1..Len(log) : log[i].e = "loaded"


=============================================================================
